---- MODULE Spec2Model ----
(***************************************************************************)
(* The remote training-session debugger of                                 *)
(* mindspore/ccsrc/debug/debugger/debugger.cc: the session state machine   *)
(* (Init, Reset, PreExecute, PostExecute, PostExecuteNode, PostDebugOp,    *)
(* CommandLoop) and the view/set/run/exit command handling.                *)
(*                                                                         *)
(* Strings the code takes apart (node names, ports, hosts) are sequences   *)
(* of one-character strings; a unique_ptr is a sequence of length 0        *)
(* (nullptr) or 1 (the owned object).                                      *)
(***************************************************************************)
EXTENDS Integers, Sequences, FiniteSets, TLC

(***************************************************************************)
(* Bounds of the model                                                     *)
(***************************************************************************)
\* num_step_ is capped by the guards of PostExecute
MaxStep == 2
\* commands with an OK status the controller sends in one command loop
\* before it must answer with Run or Exit
MaxCmds == 1

(***************************************************************************)
(* Characters and strings                                                  *)
(***************************************************************************)
Digits == <<"0", "1", "2", "3", "4", "5", "6", "7", "8", "9">>

IsDigit(c) == \E i \in 1..10 : Digits[i] = c

DigitVal(c) == (CHOOSE i \in 1..10 : Digits[i] = c) - 1

\* c is a digit whose value lies in lo..hi, a regex class such as [0-4]
InClass(c, lo, hi) == IsDigit(c) /\ DigitVal(c) >= lo /\ DigitVal(c) <= hi

\* std::string::find_last_of(ch): the last position (1-based) of ch in s,
\* 0 standing for npos (npos + 1 == 0 in the code's substr(found + 1))
FindLastOf(s, ch) ==
  IF \E i \in 1..Len(s) : s[i] = ch
    THEN CHOOSE i \in 1..Len(s) : s[i] = ch /\ \A j \in (i + 1)..Len(s) : s[j] # ch
    ELSE 0

\* std::string::substr(pos) with a 0-based pos
SubstrFrom(s, pos) == SubSeq(s, pos + 1, Len(s))

\* s.rfind(w, 0) == 0: w is a prefix of s
IsPrefix(w, s) == Len(w) <= Len(s) /\ SubSeq(s, 1, Len(w)) = w

\* the parts of s between the occurrences of ch
RECURSIVE Split(_, _)
Split(s, ch) ==
  IF \E i \in 1..Len(s) : s[i] = ch
    THEN LET i == CHOOSE k \in 1..Len(s) : s[k] = ch /\ \A j \in 1..(k - 1) : s[j] # ch
         IN <<SubSeq(s, 1, i - 1)>> \o Split(SubSeq(s, i + 1, Len(s)), ch)
    ELSE <<s>>

(***************************************************************************)
(* Configuration checks of EnableDebugger                                  *)
(***************************************************************************)
\* one octet of reg_ip: (25[0-top]|2[0-4][0-9]|1[0-9][0-9]|[1-9][0-9]|[low-9])
OctetMatch(p, top, low) ==
  \/ Len(p) = 3 /\ p[1] = "2" /\ p[2] = "5" /\ InClass(p[3], 0, top)
  \/ Len(p) = 3 /\ p[1] = "2" /\ InClass(p[2], 0, 4) /\ InClass(p[3], 0, 9)
  \/ Len(p) = 3 /\ p[1] = "1" /\ InClass(p[2], 0, 9) /\ InClass(p[3], 0, 9)
  \/ Len(p) = 2 /\ InClass(p[1], 1, 9) /\ InClass(p[2], 0, 9)
  \/ Len(p) = 1 /\ InClass(p[1], low, 9)

\* std::regex_match(host_str, smat, reg_ip)
RegIpMatch(host_str) ==
  LET parts == Split(host_str, ".")
  IN /\ Len(parts) = 4
     /\ OctetMatch(parts[1], 4, 1)
     /\ OctetMatch(parts[2], 5, 0)
     /\ OctetMatch(parts[3], 5, 0)
     /\ OctetMatch(parts[4], 4, 1)

PortMax == 65535

\* the while loop of CheckPort from position p (1-based) with the value num
RECURSIVE CheckPortLoop(_, _, _)
CheckPortLoop(port, p, num) ==
  IF p > Len(port) THEN TRUE
  ELSE IF ~IsDigit(port[p]) THEN FALSE
  ELSE LET n == num * 10 + DigitVal(port[p])
       IN IF n < 1 \/ n > PortMax THEN FALSE ELSE CheckPortLoop(port, p + 1, n)

CheckPort(port) ==
  IF Len(port) >= 2 /\ port[1] = "0" THEN FALSE ELSE CheckPortLoop(port, 1, 0)

\* std::strcmp(env_str, "1") == 0 on a variable that is set
IsOne(v) == Len(v) = 1 /\ v[1] = <<"1">>

(***************************************************************************)
(* Graphs handed to PreExecute                                             *)
(***************************************************************************)
\* AnfAlgo::GetCNodeName of the nodes of graph_ptr->execution_order(),
\* indexed by graph id; graphs 3 and 4 are data-loading graphs
ExecutionOrder ==
  << <<"Conv2D", "BiasAdd">>,
     <<"MatMul">>,
     <<"Conv2D", "GetNext">>,
     <<"InitDataSetQueue">> >>

\* the graphs the engine submits; a KernelGraphPtr is the graph id, and
\* NullGraph is the nullptr graph_ptr_ of a new or reset session
KernelGraphs == DOMAIN ExecutionOrder

NullGraph == 0

\* the loop of CheckDatasetGraph over execution_order(): the value it leaves
\* in is_dataset_graph_
RECURSIVE CheckDatasetGraphLoop(_, _)
CheckDatasetGraphLoop(nodes, i) ==
  IF i > Len(nodes) THEN FALSE
  ELSE IF nodes[i] = "GetNext" \/ nodes[i] = "InitDataSetQueue" THEN TRUE
  ELSE CheckDatasetGraphLoop(nodes, i + 1)

\* no graph is taken for a data-loading graph
NoDatasetGraph(graph) == FALSE

CheckDatasetGraph(graph) == CheckDatasetGraphLoop(ExecutionOrder[graph], 1)

(***************************************************************************)
(* Node names and captured tensors                                         *)
(***************************************************************************)
\* "s/a", a node inside scope "s", and "b", a node without scope
NodeA == <<"s", "/", "a">>

NodeB == <<"b">>

NodeNames == {NodeA, NodeB}

\* an unsigned int as its top bit and its low 31 bits: the value is
\* hi * 2^31 + lo
U32(hi, lo) == [hi |-> hi, lo |-> lo]

IntMax == 2147483647

\* the conversion of `int tensor_size = data_size[result_index]`: values of
\* 2^31 and above come out negative (value - 2^32)
ToInt(u) == IF u.hi = 1 THEN (u.lo - IntMax) - 1 ELSE u.lo

\* #define CHUNK_SIZE 1024 * 1024 * 3
CHUNK_SIZE == 1024 * 1024 * 3

\* a capture held by the tensor loader: its key, the node and slot it was
\* captured at, the size of its buffer, element type, shape, and whether
\* its values contain a NaN or an Inf
TensorData(name, node, slot, data_size, nan, inf) ==
  [name |-> name, node |-> node, slot |-> slot, data_size |-> data_size,
   dtype |-> "kNumberTypeFloat32", shape |-> <<2, 3>>, nan |-> nan, inf |-> inf]

\* the captures the engine loads in the course of a step, one loader content
\* per element: buffers of 0 bytes, of one chunk and a byte, of two whole
\* chunks, and of 2^31 bytes
TensorConfigs ==
  { << TensorData(NodeA \o <<":", "0">>, NodeA, <<"0">>, U32(0, 0), FALSE, TRUE),
       TensorData(NodeB \o <<":", "0">>, NodeB, <<"0">>, U32(0, CHUNK_SIZE + 1), TRUE, FALSE),
       TensorData(<<"a", ":", "0">>, NodeA, <<"1">>, U32(0, 2 * CHUNK_SIZE), TRUE, FALSE),
       TensorData(NodeB \o <<":", "1">>, NodeB, <<"1">>, U32(1, 0), FALSE, TRUE) >> }

(***************************************************************************)
(* DebugServices: the watchpoint table and the tensor loader               *)
(***************************************************************************)
WatchIds == {1, 2}

\* WatchCondition_Condition_nan and _inf
ConditionNan == 0

ConditionInf == 1

\* std::make_unique<DebugServices>(): no watchpoint, an empty tensor loader
NewDebugServices ==
  [watchpoint_table |-> [i \in {} |-> 0], tensor_loader |-> <<>>]

\* DebugServices::AddWatchpoint: registers or replaces the watchpoint at id
AddWatchpoint(ds, id, condition, value, check_node_list) ==
  [ds EXCEPT !.watchpoint_table =
     [i \in (DOMAIN ds.watchpoint_table) \cup {id} |->
        IF i = id
          THEN [id |-> id, condition |-> condition, parameter |-> value,
                check_node_list |-> check_node_list]
          ELSE ds.watchpoint_table[i]]]

\* DebugServices::RemoveWatchpoint: erases id, nothing if it is absent
RemoveWatchpointDS(ds, id) ==
  [ds EXCEPT !.watchpoint_table =
     [i \in (DOMAIN ds.watchpoint_table) \ {id} |-> ds.watchpoint_table[i]]]

\* one (name, is_scope) target against a node name: an exact name, or a
\* scope that is a prefix of the name
TargetMatches(check_node, kernel_name) ==
  IF check_node[2] THEN IsPrefix(check_node[1], kernel_name)
  ELSE check_node[1] = kernel_name

WatchpointMatches(wp, kernel_name) ==
  \E k \in 1..Len(wp.check_node_list) : TargetMatches(wp.check_node_list[k], kernel_name)

\* DebugServices::IsWatchPoint(kernel_name, watchpoint_table)
IsWatchPoint(kernel_name, watchpoint_table) ==
  \E i \in DOMAIN watchpoint_table : WatchpointMatches(watchpoint_table[i], kernel_name)

\* TensorLoader::GetTensor() and GetNodeTensorMap(node): all captures, or
\* the captures of one node, in capture order
GetNodeTensorMap(loader, node) == SelectSeq(loader, LAMBDA t : t.node = node)

\* the condition of a watchpoint on the values of a tensor
ConditionHolds(wp, t) ==
  \/ wp.condition = ConditionNan /\ t.nan
  \/ wp.condition = ConditionInf /\ t.inf

\* the hits of watchpoint id on tensor_list from position k on
RECURSIVE HitsOfWatchpoint(_, _, _)
HitsOfWatchpoint(wp, tensor_list, k) ==
  IF k > Len(tensor_list) THEN <<>>
  ELSE (IF WatchpointMatches(wp, tensor_list[k].node) /\ ConditionHolds(wp, tensor_list[k])
          THEN << [name |-> tensor_list[k].node, slot |-> tensor_list[k].slot,
                   condition |-> wp.condition, watchpoint_id |-> wp.id] >>
          ELSE <<>>)
       \o HitsOfWatchpoint(wp, tensor_list, k + 1)

\* DebugServices::CheckWatchpoints: the hits of the watchpoints with the ids
\* in `ids`, in the order of the ids and then of the tensors
RECURSIVE CheckWatchpointsDS(_, _, _)
CheckWatchpointsDS(watchpoint_table, ids, tensor_list) ==
  IF ids = {} THEN <<>>
  ELSE LET i == CHOOSE m \in ids : \A n \in ids : m <= n
       IN HitsOfWatchpoint(watchpoint_table[i], tensor_list, 1)
          \o CheckWatchpointsDS(watchpoint_table, ids \ {i}, tensor_list)

\* the position of the capture named `name` in the loader, 0 if there is none
FindTensor(loader, name) ==
  IF \E k \in 1..Len(loader) : loader[k].name = name
    THEN CHOOSE k \in 1..Len(loader) :
           loader[k].name = name /\ \A j \in 1..(k - 1) : loader[j].name # name
    ELSE 0

\* DebugServices::ReadNodesTensors: the captures found for the names, in the
\* order of the names
RECURSIVE ReadNodesTensors(_, _, _)
ReadNodesTensors(loader, name, k) ==
  IF k > Len(name) THEN <<>>
  ELSE (IF FindTensor(loader, name[k]) = 0 THEN <<>>
        ELSE << loader[FindTensor(loader, name[k])] >>)
       \o ReadNodesTensors(loader, name, k + 1)

\* GetDebuggerNumberDataType: the protocol's name of an element type
GetDebuggerNumberDataType(dtype) ==
  IF dtype = "kNumberTypeFloat32" THEN "DT_FLOAT32" ELSE "DT_UNDEFINED"

(***************************************************************************)
(* View: GetTensorFullName, AddTensorProtoInfo, LoadTensors                *)
(***************************************************************************)
\* a TensorProto of a View command
TensorRequest(node_name, slot, iter, truncate) ==
  [node_name |-> node_name, slot |-> slot, iter |-> iter, truncate |-> truncate]

\* the name is cut after its first "/" instead of its last
FullNameFromFirstSlash(tensor) ==
  LET cut == IF \E i \in 1..Len(tensor.node_name) : tensor.node_name[i] = "/"
               THEN CHOOSE i \in 1..Len(tensor.node_name) :
                      /\ tensor.node_name[i] = "/"
                      /\ \A j \in 1..(i - 1) : tensor.node_name[j] # "/"
               ELSE 0
      node_name == IF tensor.truncate THEN SubstrFrom(tensor.node_name, cut)
                   ELSE tensor.node_name
  IN node_name \o <<":">> \o tensor.slot
       \o (IF tensor.iter = <<>> THEN <<>> ELSE <<":">> \o tensor.iter)

GetTensorFullName(tensor) ==
  LET found == FindLastOf(tensor.node_name, "/")
      node_name == IF tensor.truncate THEN SubstrFrom(tensor.node_name, found)
                   ELSE tensor.node_name
  IN node_name \o <<":">> \o tensor.slot
       \o (IF tensor.iter = <<>> THEN <<>> ELSE <<":">> \o tensor.iter)

\* std::transform(tensors.begin(), tensors.end(), ..., GetTensorFullName)
FullNames(tensors) == [k \in 1..Len(tensors) |-> GetTensorFullName(tensors[k])]

\* no bytes: tensor_content after clear_tensor_content()
NoContent == [buffer |-> <<>>, offset |-> 0, size |-> 0]

\* AddTensorProtoInfo on a tensor_item whose finished flag is set: the
\* request's name, slot, iter and truncate; content, data type, dims cleared
AddTensorProtoInfo(finished, tensor) ==
  [node_name |-> tensor.node_name, slot |-> tensor.slot, iter |-> tensor.iter,
   truncate |-> tensor.truncate, finished |-> finished,
   tensor_content |-> NoContent, data_type |-> "DT_UNDEFINED", dims |-> <<>>]

\* a requested tensor the loader did not return is dropped from the reply
NotFoundDropped(tensor) == <<>>

\* the branch of LoadTensors for a requested tensor that is not the next
\* returned one: one item, finished, with the request's fields only
NotFoundItem(tensor) == <<AddTensorProtoInfo(TRUE, tensor)>>

\* one pass of `while (size_iter < tensor_size)`: the chunk of the bytes
\* data_ptr + size_iter .. + chunk_size of the found tensor
TensorChunk(tensor, found, tensor_size, size_iter) ==
  LET last == tensor_size - size_iter <= CHUNK_SIZE
      chunk_size == IF last THEN tensor_size - size_iter ELSE CHUNK_SIZE
  IN [AddTensorProtoInfo(last, tensor) EXCEPT
        !.tensor_content = [buffer |-> found.name, offset |-> size_iter, size |-> chunk_size],
        !.data_type = GetDebuggerNumberDataType(found.dtype),
        !.dims = found.shape]

\* the while loop of LoadTensors for one found tensor, from size_iter on
\* (the sizes of TensorConfigs keep size_iter + CHUNK_SIZE within int)
RECURSIVE TensorChunks(_, _, _, _)
TensorChunks(tensor, found, tensor_size, size_iter) ==
  IF size_iter < tensor_size
    THEN <<TensorChunk(tensor, found, tensor_size, size_iter)>>
         \o TensorChunks(tensor, found, tensor_size, size_iter + CHUNK_SIZE)
    ELSE <<>>

\* the for loop of LoadTensors from the k-th requested tensor on, with
\* result_index (0-based) into the tensors ReadNodesTensors returned
RECURSIVE LoadTensorsLoop(_, _, _, _)
LoadTensorsLoop(tensors, k, ret, result_index) ==
  IF k > Len(tensors) THEN <<>>
  ELSE IF result_index >= Len(ret)
          \/ ret[result_index + 1].name # GetTensorFullName(tensors[k])
    THEN NotFoundItem(tensors[k])
         \o LoadTensorsLoop(tensors, k + 1, ret, result_index)
    ELSE TensorChunks(tensors[k], ret[result_index + 1],
                      ToInt(ret[result_index + 1].data_size), 0)
         \o LoadTensorsLoop(tensors, k + 1, ret, result_index + 1)

\* Debugger::LoadTensors(tensors) on the tensor loader of debug_services_
LoadTensors(loader, tensors) ==
  LoadTensorsLoop(tensors, 1, ReadNodesTensors(loader, FullNames(tensors), 1), 0)

(***************************************************************************)
(* The protocol: EventReply and its accessors                              *)
(***************************************************************************)
\* a reply without a command, as a failed request or an unknown command has
CmdReply(status, cmd_case) == [status |-> status, cmd_case |-> cmd_case]

RunReply(status, run_level, node_name) ==
  [status |-> status, cmd_case |-> "kRunCmd",
   run_cmd |-> [run_level |-> run_level, node_name |-> node_name]]

WatchNode(node_name, node_type) == [node_name |-> node_name, node_type |-> node_type]

SetReply(watch_nodes, condition, value, id, delete) ==
  [status |-> "OK", cmd_case |-> "kSetCmd",
   set_cmd |-> [watch_nodes |-> watch_nodes, has_watch_condition |-> TRUE,
                watch_condition |-> [condition |-> condition, value |-> value],
                id |-> id, delete |-> delete]]

ViewReply(tensors) ==
  [status |-> "OK", cmd_case |-> "kViewCmd", view_cmd |-> [tensors |-> tensors]]

\* no reply received yet
NoReply == CmdReply("NONE", "CMD_NOT_SET")

\* the targets a Set command names: the scope "s", or the node "b"
WatchScopeS == <<WatchNode(<<"s">>, "scope")>>

WatchNodeB == <<WatchNode(NodeB, "leaf")>>

\* the tensors a View command names
ViewRequests ==
  { << TensorRequest(NodeA, <<"0">>, <<>>, FALSE), TensorRequest(NodeB, <<"0">>, <<>>, FALSE) >>,
    << TensorRequest(NodeB, <<"0">>, <<"5">>, FALSE), TensorRequest(NodeA, <<"0">>, <<>>, TRUE),
       TensorRequest(NodeB, <<"1">>, <<>>, FALSE) >> }

\* the replies the controller and the transport give to WaitForCommand
Replies ==
  {CmdReply("FAILED", "CMD_NOT_SET"), RunReply("FAILED", "node", <<>>),
   CmdReply("OK", "CMD_NOT_SET"), CmdReply("OK", "kExit")}
  \cup {RunReply("OK", "node", <<>>), RunReply("OK", "node", NodeA),
        RunReply("OK", "step", <<>>)}
  \cup {SetReply(WatchScopeS, ConditionNan, 0, 1, FALSE),
        SetReply(WatchNodeB, ConditionInf, 3, 1, FALSE),
        SetReply(WatchScopeS, ConditionInf, 0, 2, FALSE),
        SetReply(WatchNodeB, ConditionInf, 3, 1, TRUE),
        SetReply(WatchScopeS, ConditionNan, 0, 2, TRUE)}
  \cup {ViewReply(t) : t \in ViewRequests}

\* a reply without a known command is taken for a Run command
GetCommandOrRun(reply) ==
  CASE reply.cmd_case = "kExit" -> "kExitCMD"
    [] reply.cmd_case = "kSetCmd" -> "kSetCMD"
    [] reply.cmd_case = "kViewCmd" -> "kViewCMD"
    [] OTHER -> "kRunCMD"

\* GetCommand(reply): the DebuggerCommand of reply.cmd_case()
GetCommand(reply) ==
  CASE reply.cmd_case = "kExit" -> "kExitCMD"
    [] reply.cmd_case = "kRunCmd" -> "kRunCMD"
    [] reply.cmd_case = "kSetCmd" -> "kSetCMD"
    [] reply.cmd_case = "kViewCmd" -> "kViewCMD"
    [] OTHER -> "kUnknownCMD"

has_run_cmd(reply) == reply.cmd_case = "kRunCmd"

has_set_cmd(reply) == reply.cmd_case = "kSetCmd"

has_view_cmd(reply) == reply.cmd_case = "kViewCmd"

GetRunLevel(reply) == IF ~has_run_cmd(reply) THEN "" ELSE reply.run_cmd.run_level

GetNodeName(reply) == IF ~has_run_cmd(reply) THEN <<>> ELSE reply.run_cmd.node_name

GetWatchnodes(reply) == IF ~has_set_cmd(reply) THEN <<>> ELSE reply.set_cmd.watch_nodes

\* WatchCondition(): condition 0, value 0
GetWatchcondition(reply) ==
  IF ~has_set_cmd(reply) \/ ~reply.set_cmd.has_watch_condition
    THEN [condition |-> 0, value |-> 0]
    ELSE reply.set_cmd.watch_condition

GetWatchpointID(reply) == IF ~has_set_cmd(reply) THEN 0 ELSE reply.set_cmd.id

GetWatchpointDelete(reply) == IF ~has_set_cmd(reply) THEN FALSE ELSE reply.set_cmd.delete

GetTensors(reply) == IF ~has_view_cmd(reply) THEN <<>> ELSE reply.view_cmd.tensors

\* Debugger::SetWatchpoint(nodes, condition, id) on debug_services_
SetWatchpoint(ds, nodes, condition, id) ==
  AddWatchpoint(ds, id, condition.condition, condition.value,
                [k \in 1..Len(nodes) |-> <<nodes[k].node_name, nodes[k].node_type = "scope">>])

\* the watchpoint is left in the table
RemoveNothing(ds, id) == ds

\* Debugger::RemoveWatchpoint(id) on debug_services_
RemoveWatchpoint(ds, id) == RemoveWatchpointDS(ds, id)

\* a Set command that always sets the watchpoint, whatever its delete flag
SetIgnoringDelete(ds, reply) ==
  SetWatchpoint(ds, GetWatchnodes(reply), GetWatchcondition(reply), GetWatchpointID(reply))

\* the kSetCMD case of CommandLoop: debug_services_ after the command
HandleSetCmd(ds, reply) ==
  IF GetWatchpointDelete(reply)
    THEN RemoveWatchpoint(ds, GetWatchpointID(reply))
    ELSE SetWatchpoint(ds, GetWatchnodes(reply), GetWatchcondition(reply),
                       GetWatchpointID(reply))

(***************************************************************************)
(* The process environment                                                 *)
(***************************************************************************)
\* getenv of the four variables (<<>> when unset, <<value>> when set) and
\* DumpDataEnabled() of the GPU runtime
Environment(enable, host, port, partial, dump) ==
  [ENABLE_MS_DEBUGGER |-> enable, MS_DEBUGGER_HOST |-> host, MS_DEBUGGER_PORT |-> port,
   MS_DEBUGGER_PARTIAL_MEM |-> partial, DumpDataEnabled |-> dump]

\* the environments the process is started in: nothing set; the debugger
\* enabled with the default host and port; an invalid host; an invalid
\* port; the debugger off and the dump on
Environments ==
  { Environment(<<>>, <<>>, <<>>, <<>>, FALSE),
    Environment(<< <<"1">> >>, <<>>, <<>>, <<>>, FALSE),
    Environment(<< <<"1">> >>, << <<"l", "o", "c", "a", "l", "h", "o", "s", "t">> >>,
                << <<"8", "0", "8", "0">> >>, <<>>, FALSE),
    Environment(<< <<"1">> >>, <<>>, << <<"0">> >>, << <<"1">> >>, FALSE),
    Environment(<< <<"0">> >>, <<>>, <<>>, <<>>, TRUE) }

\* the debugger enabled with a valid host and MS_DEBUGGER_PORT set to the
\* empty string
EmptyPortEnvironment ==
  Environment(<< <<"1">> >>, << <<"1", "0", ".", "0", ".", "0", ".", "1">> >>, << <<>> >>,
              <<>>, FALSE)

DeviceTargets == {"GPU", "Ascend"}

kGPUDevice == "GPU"

(***************************************************************************)
(* The session                                                             *)
(***************************************************************************)
VARIABLES
  \* the members of Debugger
  grpc_client, debug_services, device_id, device_target, num_step,
  debugger_enabled, run_level, node_name, cur_name, training_done,
  is_dataset_graph, partial_memory, graph_ptr, last_overflow_bin,
  overflow_bin_path, stream_task_to_opname,
  \* the process environment
  env,
  \* where the engine thread is: "idle" outside the debugger, "WaitForCommand"
  \* blocked in CommandLoop on the reply to its request, "exited" after
  \* std::exit
  pc,
  \* the locals of CommandLoop: metadata (<<>> outside the loop) and
  \* num_wait_fail
  metadata, num_wait_fail,
  \* the replies with an OK status the running command loop has handled,
  \* the WaitForCommand requests it has issued and the sleeps it has made
  n_ok, n_wait, sleeps,
  \* the last reply to WaitForCommand, what the last step did (transport
  \* requests, sleeps, ClearResAtexit, exit) and whether ClearResAtexit has
  \* run
  reply, out, res_cleared,
  \* history: the graphs whose topology has been sent since the process
  \* started or the session was last Reset, <<set>> where the history is kept
  \* (SpecHistory) and <<>> where it is not
  graphs_sent,
  \* the last call of a free function of debugger.cc, where such calls are
  \* made (SpecFunctions, SpecOverflow): <<name, arguments>> and <<result>>
  arg, ret

members ==
  <<grpc_client, debug_services, device_id, device_target, num_step,
    debugger_enabled, run_level, node_name, cur_name, training_done,
    is_dataset_graph, partial_memory, graph_ptr, last_overflow_bin,
    overflow_bin_path, stream_task_to_opname>>

loop == <<pc, metadata, num_wait_fail, n_ok, n_wait, sleeps>>

vars == <<members, env, loop, reply, out, res_cleared, graphs_sent, arg, ret>>

\* Debugger::Debugger() in a process with environment e
Debugger(e) ==
  /\ grpc_client = <<>>
  /\ debug_services = <<>>
  /\ device_id = 0
  /\ device_target = ""
  /\ num_step = 0
  /\ debugger_enabled = FALSE
  /\ run_level = ""
  /\ node_name = <<>>
  /\ cur_name = <<>>
  /\ training_done = FALSE
  /\ is_dataset_graph = FALSE
  /\ partial_memory = FALSE
  /\ graph_ptr = NullGraph
  /\ last_overflow_bin = 0
  /\ overflow_bin_path = ""
  /\ stream_task_to_opname = <<>>
  /\ env = e

\* the state of a new process, but for the environment
Idle ==
  /\ pc = "idle"
  /\ metadata = <<>>
  /\ num_wait_fail = 0
  /\ n_ok = 0
  /\ n_wait = 0
  /\ sleeps = <<>>
  /\ reply = NoReply
  /\ out = <<>>
  /\ res_cleared = FALSE
  /\ arg = <<>>
  /\ ret = <<>>

Init ==
  /\ \E e \in Environments : Debugger(e)
  /\ Idle
  /\ graphs_sent = <<>>

\* the same, with the history of the topologies sent kept
InitHistory ==
  /\ \E e \in Environments : Debugger(e)
  /\ Idle
  /\ graphs_sent = << {} >>

\* a process started in any of the environments, the one with the empty
\* port included
InitEnv ==
  /\ \E e \in Environments \cup {EmptyPortEnvironment} : Debugger(e)
  /\ Idle
  /\ graphs_sent = <<>>

(***************************************************************************)
(* Private helpers of Debugger                                             *)
(***************************************************************************)
CheckDebuggerDumpEnabled ==
  IF device_target = kGPUDevice THEN env.DumpDataEnabled ELSE FALSE

CheckDebuggerEnabled ==
  IF env.ENABLE_MS_DEBUGGER # <<>> THEN IsOne(env.ENABLE_MS_DEBUGGER) ELSE FALSE

DebuggerBackendEnabled == CheckDebuggerDumpEnabled \/ CheckDebuggerEnabled

\* EnableDebugger that keeps a Watch Store that already exists
EnableDebuggerKeepingStore ==
  LET dump_enabled == CheckDebuggerDumpEnabled
      enabled == CheckDebuggerEnabled
      host_ok == env.MS_DEBUGGER_HOST = <<>> \/ RegIpMatch(env.MS_DEBUGGER_HOST[1])
      host == IF env.MS_DEBUGGER_HOST = <<>>
                THEN <<"l", "o", "c", "a", "l", "h", "o", "s", "t">>
                ELSE IF host_ok THEN env.MS_DEBUGGER_HOST[1] ELSE <<>>
      port_ok == env.MS_DEBUGGER_PORT = <<>> \/ CheckPort(env.MS_DEBUGGER_PORT[1])
      port == IF env.MS_DEBUGGER_PORT = <<>> THEN <<"5", "0", "0", "5", "1">>
              ELSE IF port_ok THEN env.MS_DEBUGGER_PORT[1] ELSE <<>>
      partial == IF env.MS_DEBUGGER_PARTIAL_MEM # <<>>
                   THEN IsOne(env.MS_DEBUGGER_PARTIAL_MEM) ELSE FALSE
  IN IF ~enabled /\ ~dump_enabled
       THEN [num_step |-> 0, debugger_enabled |-> FALSE, partial_memory |-> FALSE,
             grpc_client |-> <<>>, debug_services |-> <<>>]
       ELSE [num_step |-> 0,
             debugger_enabled |-> enabled /\ host_ok /\ port_ok,
             partial_memory |-> partial,
             grpc_client |-> IF enabled /\ host_ok /\ port_ok
                               THEN <<[host |-> host, port |-> port]>> ELSE <<>>,
             debug_services |-> IF debug_services # <<>>
                                  THEN debug_services ELSE <<NewDebugServices>>]

\* EnableDebugger: the values it leaves in num_step_, debugger_enabled_,
\* partial_memory_, grpc_client_ and debug_services_ (built without ENABLE_D)
EnableDebugger ==
  LET dump_enabled == CheckDebuggerDumpEnabled
      enabled == CheckDebuggerEnabled
      host_ok == env.MS_DEBUGGER_HOST = <<>> \/ RegIpMatch(env.MS_DEBUGGER_HOST[1])
      host == IF env.MS_DEBUGGER_HOST = <<>>
                THEN <<"l", "o", "c", "a", "l", "h", "o", "s", "t">>
                ELSE IF host_ok THEN env.MS_DEBUGGER_HOST[1] ELSE <<>>
      port_ok == env.MS_DEBUGGER_PORT = <<>> \/ CheckPort(env.MS_DEBUGGER_PORT[1])
      port == IF env.MS_DEBUGGER_PORT = <<>> THEN <<"5", "0", "0", "5", "1">>
              ELSE IF port_ok THEN env.MS_DEBUGGER_PORT[1] ELSE <<>>
      partial == IF env.MS_DEBUGGER_PARTIAL_MEM # <<>>
                   THEN IsOne(env.MS_DEBUGGER_PARTIAL_MEM) ELSE FALSE
  IN IF ~enabled /\ ~dump_enabled
       THEN [num_step |-> 0, debugger_enabled |-> FALSE, partial_memory |-> FALSE,
             grpc_client |-> <<>>, debug_services |-> <<>>]
       ELSE [num_step |-> 0,
             debugger_enabled |-> enabled /\ host_ok /\ port_ok,
             partial_memory |-> partial,
             grpc_client |-> IF enabled /\ host_ok /\ port_ok
                               THEN <<[host |-> host, port |-> port]>> ELSE <<>>,
             debug_services |-> <<NewDebugServices>>]

\* the Metadata that SendMetadata and CommandLoop prepare
Metadata ==
  [device_name |-> <<device_id, graph_ptr>>, cur_step |-> num_step,
   backend |-> device_target, cur_node |-> cur_name, training_done |-> training_done]

Statuses == {"OK", "FAILED"}

max_num_wait_fail == 5

\* a request to the controller and the status of its reply
WaitForCommand(m) == [op |-> "WaitForCommand", metadata |-> m]

SendMetadata(m, status) == [op |-> "SendMetadata", metadata |-> m, status |-> status]

SendGraph(graph, status) == [op |-> "SendGraph", graph |-> graph, status |-> status]

SendWatchpointHits(points, status) ==
  [op |-> "SendWatchpointHits", points |-> points, status |-> status]

SendTensors(tensors, status) == [op |-> "SendTensors", tensors |-> tensors, status |-> status]

\* the engine thread is outside the debugger and takes access_lock_
Call ==
  /\ pc = "idle"
  /\ UNCHANGED <<env, reply, res_cleared, arg, ret>>

\* the method returns without a transport request
Return ==
  /\ out' = <<>>
  /\ UNCHANGED <<loop, graphs_sent>>

\* the history after the requests `sent`: the graphs of its SendGraph
\* requests are added
Recorded(sent) ==
  IF graphs_sent = <<>> THEN <<>>
  ELSE << graphs_sent[1]
          \cup {sent[i].graph : i \in {j \in 1..Len(sent) : sent[j].op = "SendGraph"}} >>

\* CommandLoop() up to its first WaitForCommand, after the requests `sent`
CommandLoop(sent) ==
  /\ pc' = "WaitForCommand"
  /\ metadata' = <<Metadata'>>
  /\ num_wait_fail' = 0
  /\ n_ok' = 0
  /\ n_wait' = 1
  /\ sleeps' = <<>>
  /\ out' = sent \o <<WaitForCommand(Metadata')>>
  /\ graphs_sent' = Recorded(sent)

\* a failed SendGraph ends the process instead of entering the command loop
SendGraphOrExit ==
  \E s1 \in Statuses, s2 \in Statuses :
    LET sent == <<SendMetadata(Metadata', s1), SendGraph(graph_ptr', s2)>>
    IN IF s2 = "FAILED"
         THEN /\ pc' = "exited"
              /\ out' = sent \o <<[op |-> "exit"]>>
              /\ graphs_sent' = Recorded(sent)
              /\ UNCHANGED <<metadata, num_wait_fail, n_ok, n_wait, sleeps>>
         ELSE CommandLoop(sent)

\* the graph is sent before the metadata
SendGraphFirst ==
  \E s1 \in Statuses, s2 \in Statuses :
    CommandLoop(<<SendGraph(graph_ptr', s2), SendMetadata(Metadata', s1)>>)

\* SendGraphAndSuspend(GetGraphProto())
SendGraphAndSuspend ==
  \E s1 \in Statuses, s2 \in Statuses :
    CommandLoop(<<SendMetadata(Metadata', s1), SendGraph(graph_ptr', s2)>>)

\* the watchpoints are evaluated on all tensors, whatever the watchnode
CheckAllTensors(watchnode) ==
  LET ds == debug_services[1]
      found == CheckWatchpointsDS(ds.watchpoint_table, DOMAIN ds.watchpoint_table,
                                  ds.tensor_loader)
  IN [i \in 1..Len(found) |->
        [id |-> found[i].watchpoint_id,
         tensor |-> [node_name |-> found[i].name, slot |-> found[i].slot,
                     finished |-> TRUE],
         watch_condition |-> [condition |-> found[i].condition]]]

\* Debugger::CheckWatchpoints(watchnode): the hits of the tensors of
\* watchnode, or of all tensors when watchnode is empty
CheckWatchpoints(watchnode) ==
  LET ds == debug_services[1]
      tensor_list == IF watchnode = <<>> THEN ds.tensor_loader
                     ELSE GetNodeTensorMap(ds.tensor_loader, watchnode)
      found == CheckWatchpointsDS(ds.watchpoint_table, DOMAIN ds.watchpoint_table,
                                  tensor_list)
  IN [i \in 1..Len(found) |->
        [id |-> found[i].watchpoint_id,
         tensor |-> [node_name |-> found[i].name, slot |-> found[i].slot,
                     finished |-> TRUE],
         watch_condition |-> [condition |-> found[i].condition]]]

\* the hits are sent in the reverse of the order of the evaluation
SendReversedAndSuspend(points) ==
  IF points # <<>>
    THEN \E s \in Statuses :
           CommandLoop(<<SendWatchpointHits([i \in 1..Len(points) |->
                                               points[Len(points) + 1 - i]], s)>>)
    ELSE CommandLoop(<<>>)

\* SendWatchpointsAndSuspend(points)
SendWatchpointsAndSuspend(points) ==
  IF points # <<>>
    THEN \E s \in Statuses : CommandLoop(<<SendWatchpointHits(points, s)>>)
    ELSE CommandLoop(<<>>)

\* `graph_ptr_ != graph_ptr`: the graph handed to PreExecute is not the
\* bound one
IsNewGraph(graph) == graph_ptr # graph

\* CheckGraphPtr(graph_ptr)
CheckGraphPtr(graph) ==
  IF IsNewGraph(graph)
    THEN /\ graph_ptr' = graph
         /\ is_dataset_graph' = CheckDatasetGraph(graph)
         /\ IF ~CheckDatasetGraph(graph)
              THEN /\ num_step' = EnableDebugger.num_step
                   /\ debugger_enabled' = EnableDebugger.debugger_enabled
                   /\ partial_memory' = EnableDebugger.partial_memory
                   /\ grpc_client' = EnableDebugger.grpc_client
                   /\ debug_services' = EnableDebugger.debug_services
                   /\ IF EnableDebugger.debugger_enabled
                        THEN SendGraphAndSuspend
                        ELSE Return
              ELSE /\ UNCHANGED <<num_step, debugger_enabled, partial_memory,
                                  grpc_client, debug_services>>
                   /\ Return
    ELSE /\ UNCHANGED <<graph_ptr, is_dataset_graph, num_step, debugger_enabled,
                        partial_memory, grpc_client, debug_services>>
         /\ Return

\* the process is ended without ClearResAtexit
ExitWithoutClear ==
  /\ pc' = "exited"
  /\ out' = <<[op |-> "exit"]>>
  /\ UNCHANGED <<metadata, n_wait, sleeps, res_cleared, graphs_sent>>

\* Debugger::Exit(): ClearResAtexit, then std::exit(EXIT_FAILURE)
Exit ==
  /\ res_cleared' = TRUE
  /\ pc' = "exited"
  /\ out' = <<[op |-> "ClearResAtexit"], [op |-> "exit"]>>
  /\ UNCHANGED <<metadata, n_wait, sleeps, graphs_sent>>

(***************************************************************************)
(* Public methods, called by the execution engine                          *)
(***************************************************************************)
DeviceIds == {1}

\* Debugger::Init(device_id, device_target)
DebuggerInit(id, target) ==
  /\ Call
  /\ device_id' = id
  /\ device_target' = target
  /\ Return
  /\ UNCHANGED <<grpc_client, debug_services, num_step, debugger_enabled, run_level,
                 node_name, cur_name, training_done, is_dataset_graph, partial_memory,
                 graph_ptr, last_overflow_bin, overflow_bin_path, stream_task_to_opname>>

\* Reset that leaves debugger_enabled_ as it is
ResetKeepingEnabled ==
  /\ Call
  /\ device_id' = 0
  /\ device_target' = ""
  /\ num_step' = 0
  /\ UNCHANGED debugger_enabled
  /\ is_dataset_graph' = FALSE
  /\ partial_memory' = FALSE
  /\ graph_ptr' = NullGraph
  /\ grpc_client' = <<>>
  /\ debug_services' = <<>>
  /\ last_overflow_bin' = 0
  /\ overflow_bin_path' = ""
  /\ stream_task_to_opname' = <<>>
  /\ out' = <<>>
  /\ graphs_sent' = (IF graphs_sent = <<>> THEN <<>> ELSE << {} >>)
  /\ UNCHANGED loop
  /\ UNCHANGED <<run_level, node_name, cur_name, training_done>>

\* Debugger::Reset()
Reset ==
  /\ Call
  /\ device_id' = 0
  /\ device_target' = ""
  /\ num_step' = 0
  /\ debugger_enabled' = FALSE
  /\ is_dataset_graph' = FALSE
  /\ partial_memory' = FALSE
  /\ graph_ptr' = NullGraph
  /\ grpc_client' = <<>>
  /\ debug_services' = <<>>
  /\ last_overflow_bin' = 0
  /\ overflow_bin_path' = ""
  /\ stream_task_to_opname' = <<>>
  /\ out' = <<>>
  /\ graphs_sent' = (IF graphs_sent = <<>> THEN <<>> ELSE << {} >>)
  /\ UNCHANGED loop
  /\ UNCHANGED <<run_level, node_name, cur_name, training_done>>

\* Debugger::PreExecute(graph_ptr)
PreExecute(graph) ==
  /\ Call
  /\ UNCHANGED <<device_id, device_target, run_level, node_name, cur_name, training_done,
                 last_overflow_bin, overflow_bin_path, stream_task_to_opname>>
  /\ IF DebuggerBackendEnabled
       THEN CheckGraphPtr(graph)
       ELSE /\ UNCHANGED <<graph_ptr, is_dataset_graph, num_step, debugger_enabled,
                           partial_memory, grpc_client, debug_services>>
            /\ Return

\* the step is counted and the watchpoints evaluated whatever the run-level
PostExecuteAnyLevel ==
  /\ Call
  /\ UNCHANGED <<grpc_client, debug_services, device_id, device_target, debugger_enabled,
                 run_level, node_name, cur_name, training_done, is_dataset_graph,
                 partial_memory, graph_ptr, last_overflow_bin, overflow_bin_path,
                 stream_task_to_opname>>
  /\ IF DebuggerBackendEnabled /\ debugger_enabled /\ ~is_dataset_graph
       THEN IF device_target # kGPUDevice
              THEN /\ num_step < MaxStep
                   /\ num_step' = num_step + 1
                   /\ SendWatchpointsAndSuspend(CheckWatchpoints(<<>>))
              ELSE /\ UNCHANGED num_step
                   /\ CommandLoop(<<>>)
       ELSE /\ UNCHANGED num_step
            /\ Return

\* Debugger::PostExecute()
PostExecute ==
  /\ Call
  /\ UNCHANGED <<grpc_client, debug_services, device_id, device_target, debugger_enabled,
                 run_level, node_name, cur_name, training_done, is_dataset_graph,
                 partial_memory, graph_ptr, last_overflow_bin, overflow_bin_path,
                 stream_task_to_opname>>
  /\ IF DebuggerBackendEnabled /\ run_level # "node"
          /\ debugger_enabled /\ ~is_dataset_graph
       THEN IF device_target # kGPUDevice
              THEN /\ num_step < MaxStep
                   /\ num_step' = num_step + 1
                   /\ SendWatchpointsAndSuspend(CheckWatchpoints(<<>>))
              ELSE /\ UNCHANGED num_step
                   /\ CommandLoop(<<>>)
       ELSE /\ UNCHANGED num_step
            /\ Return

\* Debugger::PostExecuteNode()
PostExecuteNode ==
  /\ Call
  /\ UNCHANGED members
  /\ IF debugger_enabled /\ ~is_dataset_graph
       THEN LET is_watchpoint ==
                  IsWatchPoint(cur_name, debug_services[1].watchpoint_table)
                hits == IF is_watchpoint THEN CheckWatchpoints(cur_name) ELSE <<>>
                hit_empty_flag == ~(is_watchpoint /\ hits # <<>>)
            IN IF ~hit_empty_flag
                 THEN SendWatchpointsAndSuspend(hits)
                 ELSE IF run_level = "node" /\ (node_name = <<>> \/ node_name = cur_name)
                        THEN CommandLoop(<<>>)
                        ELSE Return
       ELSE Return

\* Debugger::PostDebugOp()
PostDebugOp ==
  /\ Call
  /\ UNCHANGED members
  /\ IF debugger_enabled /\ ~is_dataset_graph
       THEN CommandLoop(<<>>)
       ELSE Return

\* Debugger::SetCurNode(cur_name)
SetCurNode(name) ==
  /\ Call
  /\ cur_name' = name
  /\ Return
  /\ UNCHANGED <<grpc_client, debug_services, device_id, device_target, num_step,
                 debugger_enabled, run_level, node_name, training_done, is_dataset_graph,
                 partial_memory, graph_ptr, last_overflow_bin, overflow_bin_path,
                 stream_task_to_opname>>

\* the engine loads the captures of a step into the tensor loader of
\* debug_services_ (TensorLoader::LoadNewTensor)
LoadNewTensor(tensors) ==
  /\ pc = "idle"
  /\ debug_services # <<>>
  /\ debug_services' = <<[debug_services[1] EXCEPT !.tensor_loader = tensors]>>
  /\ UNCHANGED <<grpc_client, device_id, device_target, num_step, debugger_enabled,
                 run_level, node_name, cur_name, training_done, is_dataset_graph,
                 partial_memory, graph_ptr, last_overflow_bin, overflow_bin_path,
                 stream_task_to_opname>>
  /\ UNCHANGED <<env, loop, reply, res_cleared, graphs_sent, arg, ret>>
  /\ out' = <<>>

(***************************************************************************)
(* CommandLoop: one pass of `while (!run)` on the reply to WaitForCommand  *)
(***************************************************************************)
\* `continue`, or the end of the switch: the loop issues the next
\* WaitForCommand after having done `done`
Continue(done) ==
  /\ pc' = "WaitForCommand"
  /\ n_wait' = n_wait + 1
  /\ out' = done \o <<WaitForCommand(metadata[1])>>
  /\ UNCHANGED <<metadata, res_cleared, graphs_sent>>

\* run = true: the loop ends and the public method returns
Resume ==
  /\ pc' = "idle"
  /\ metadata' = <<>>
  /\ num_wait_fail' = 0
  /\ n_ok' = 0
  /\ n_wait' = 0
  /\ sleeps' = <<>>
  /\ out' = <<>>
  /\ UNCHANGED <<res_cleared, graphs_sent>>

\* no reply is taken for a failed one
ReplyNeverFailed(r) == FALSE

\* `reply.status() != reply.OK`
ReplyFailed(r) == r.status # "OK"

\* the budget counts as exceeded with the failure that reaches it
RetryBudgetReached(n) == n >= max_num_wait_fail

\* `num_wait_fail > max_num_wait_fail` after the increment
RetryBudgetExceeded(n) == n > max_num_wait_fail

CommandLoopStep(r) ==
  /\ pc = "WaitForCommand"
  /\ reply' = r
  /\ UNCHANGED <<env, arg, ret>>
  /\ IF ReplyFailed(r)
       THEN /\ num_wait_fail' = num_wait_fail + 1
            /\ IF RetryBudgetExceeded(num_wait_fail + 1)
                 THEN Exit /\ UNCHANGED sleeps
                 ELSE /\ sleeps' = Append(sleeps, 1000 * (num_wait_fail + 1))
                      /\ Continue(<<[op |-> "sleep", ms |-> 1000 * (num_wait_fail + 1)]>>)
            /\ UNCHANGED <<members, n_ok>>
       ELSE CASE GetCommand(r) = "kUnknownCMD" ->
                   /\ n_ok < MaxCmds
                   /\ n_ok' = n_ok + 1
                   /\ Continue(<<>>)
                   /\ UNCHANGED <<members, num_wait_fail, sleeps>>
              [] GetCommand(r) = "kExitCMD" ->
                   /\ Exit
                   /\ UNCHANGED <<members, num_wait_fail, n_ok, sleeps>>
              [] GetCommand(r) = "kRunCMD" ->
                   /\ run_level' = GetRunLevel(r)
                   /\ node_name' = GetNodeName(r)
                   /\ Resume
                   /\ UNCHANGED <<grpc_client, debug_services, device_id, device_target,
                                  num_step, debugger_enabled, cur_name, training_done,
                                  is_dataset_graph, partial_memory, graph_ptr,
                                  last_overflow_bin, overflow_bin_path,
                                  stream_task_to_opname>>
              [] GetCommand(r) = "kSetCMD" ->
                   /\ n_ok < MaxCmds
                   /\ n_ok' = n_ok + 1
                   /\ debug_services' = <<HandleSetCmd(debug_services[1], r)>>
                   /\ Continue(<<>>)
                   /\ UNCHANGED <<grpc_client, device_id, device_target, num_step,
                                  debugger_enabled, run_level, node_name, cur_name,
                                  training_done, is_dataset_graph, partial_memory,
                                  graph_ptr, last_overflow_bin, overflow_bin_path,
                                  stream_task_to_opname>>
                   /\ UNCHANGED <<num_wait_fail, sleeps>>
              [] GetCommand(r) = "kViewCMD" ->
                   /\ n_ok < MaxCmds
                   /\ n_ok' = n_ok + 1
                   /\ \E s \in Statuses :
                        Continue(<<SendTensors(LoadTensors(debug_services[1].tensor_loader,
                                                           GetTensors(r)), s)>>)
                   /\ UNCHANGED <<members, num_wait_fail, sleeps>>

Next ==
  \/ \E id \in DeviceIds, target \in DeviceTargets : DebuggerInit(id, target)
  \/ Reset
  \/ \E graph \in KernelGraphs : PreExecute(graph)
  \/ PostExecute
  \/ PostExecuteNode
  \/ PostDebugOp
  \/ \E name \in NodeNames : SetCurNode(name)
  \/ \E tensors \in TensorConfigs : LoadNewTensor(tensors)
  \/ \E r \in Replies : CommandLoopStep(r)

Spec == Init /\ [][Next]_vars

\* the replies of a controller that neither sets watchpoints nor views
\* tensors
HistoryReplies == {r \in Replies : ~has_set_cmd(r) /\ ~has_view_cmd(r)}

NextHistory ==
  \/ \E id \in DeviceIds, target \in DeviceTargets : DebuggerInit(id, target)
  \/ Reset
  \/ \E graph \in KernelGraphs : PreExecute(graph)
  \/ PostExecute
  \/ PostExecuteNode
  \/ PostDebugOp
  \/ \E name \in NodeNames : SetCurNode(name)
  \/ \E tensors \in TensorConfigs : LoadNewTensor(tensors)
  \/ \E r \in HistoryReplies : CommandLoopStep(r)

(***************************************************************************)
(* Calls of the free functions of debugger.cc                              *)
(***************************************************************************)
\* "conv/bn/gamma"
NodeGamma == <<"c", "o", "n", "v", "/", "b", "n", "/", "g", "a", "m", "m", "a">>

\* the TensorProtos handed to GetTensorFullName
NameRequests ==
  {TensorRequest(n, sl, it, tr) :
     n \in {NodeGamma, NodeA, NodeB, <<>>, <<"a", "/">>, <<"/", "a">>, <<"/">>},
     sl \in {<<"0">>, <<"1", "2">>},
     it \in {<<>>, <<"5">>, <<"1", "0">>, <<"0">>},
     tr \in BOOLEAN}

\* a call of GetTensorFullName(tensor)
CallGetTensorFullName(tensor) ==
  /\ arg' = <<"GetTensorFullName", tensor>>
  /\ ret' = <<GetTensorFullName(tensor)>>
  /\ UNCHANGED <<members, env, loop, reply, out, res_cleared, graphs_sent>>

\* the strings handed to CheckPort: "", "0", "1", "01", "00", "8080",
\* "65535", "65536", "99999", "100000", "655350", "8a", "-1" and " 80"
PortStrings ==
  { <<>>, <<"0">>, <<"1">>, <<"0", "1">>, <<"0", "0">>, <<"8", "0", "8", "0">>,
    <<"6", "5", "5", "3", "5">>, <<"6", "5", "5", "3", "6">>, <<"9", "9", "9", "9", "9">>,
    <<"1", "0", "0", "0", "0", "0">>, <<"6", "5", "5", "3", "5", "0">>, <<"8", "a">>,
    <<"-", "1">>, <<" ", "8", "0">> }

\* a call of CheckPort(port)
CallCheckPort(port) ==
  /\ arg' = <<"CheckPort", port>>
  /\ ret' = <<CheckPort(port)>>
  /\ UNCHANGED <<members, env, loop, reply, out, res_cleared, graphs_sent>>

\* the largest value of one byte
ByteMax == 255

\* the first char value that is negative where char is signed
CharSignBit == 128

\* BytestoInt64(buffer): the eight bytes of the result, lowest first.  Each
\* char is converted to uint64_t before it is shifted and or-ed in; where
\* char is signed a char of 128 or more converts to a value whose higher
\* bytes are all 255, which the or leaves in every higher byte of the result.
BytestoInt64(buffer, char_signed) ==
  [j \in 1..8 |->
     IF char_signed /\ \E i \in 1..(j - 1) : buffer[i] >= CharSignBit
       THEN ByteMax ELSE buffer[j]]

\* the 8-byte fields handed to BytestoInt64, lowest byte first
ByteBuffers ==
  { <<1, 0, 0, 0, 0, 0, 0, 0>>, <<127, 127, 0, 0, 0, 0, 0, 0>>,
    <<128, 0, 0, 0, 0, 0, 0, 0>>, <<200, 0, 0, 0, 0, 0, 0, 0>>,
    <<0, 255, 1, 0, 0, 0, 0, 0>>, <<44, 1, 0, 0, 0, 0, 0, 0>>,
    <<0, 0, 0, 0, 0, 0, 0, 128>>, <<255, 255, 255, 255, 255, 255, 255, 255>> }

\* a call of BytestoInt64(buffer) in a build where char is signed or not
CallBytestoInt64(buffer, char_signed) ==
  /\ arg' = <<"BytestoInt64", buffer>>
  /\ ret' = <<BytestoInt64(buffer, char_signed)>>
  /\ UNCHANGED <<members, env, loop, reply, out, res_cleared, graphs_sent>>

NextFunctions ==
  \/ \E tensor \in NameRequests : CallGetTensorFullName(tensor)
  \/ \E port \in PortStrings : CallCheckPort(port)
  \/ \E buffer \in ByteBuffers, char_signed \in BOOLEAN :
       CallBytestoInt64(buffer, char_signed)

SpecFunctions == Init /\ [][NextFunctions]_vars

(***************************************************************************)
(* Overflow record files (Debugger::CheckOpOverflow)                       *)
(***************************************************************************)
\* regular files a scan may find in the directory
MaxFiles == 3

\* std::stod of a string of decimal digits
RECURSIVE Stod(_, _)
Stod(s, n) ==
  IF s = <<>> THEN n ELSE Stod(Tail(s), n * 10 + DigitVal(Head(s)))

\* std::make_pair(stream_id, task_id) converted to the key type
\* std::pair<uint32_t, uint32_t>: the four low bytes of each
StreamTaskKey(stream_id, task_id) ==
  <<SubSeq(stream_id, 1, 4), SubSeq(task_id, 1, 4)>>

\* the eight bytes of a small id, lowest first
IdBytes(b0, b1) == <<b0, b1, 0, 0, 0, 0, 0, 0>>

\* a regular file of the directory: its name, whether it can be opened, and
\* the bytes at offsets 8..15 and 16..23 of the window read at offset 313
OverflowFile(name, can_open, stream, task) ==
  [name |-> name, can_open |-> can_open, stream |-> stream, task |-> task]

\* the files the device may write; names end in a timestamp
OverflowFiles ==
  { OverflowFile(<<"f", ".", "3", "1">>, TRUE, IdBytes(1, 0), IdBytes(2, 0)),
    OverflowFile(<<"f", ".", "7", "2">>, TRUE, IdBytes(3, 0), IdBytes(4, 0)),
    OverflowFile(<<"f", ".", "2", "0">>, TRUE, IdBytes(1, 0), IdBytes(5, 0)),
    OverflowFile(<<"f", ".", "5", "0">>, TRUE, IdBytes(3, 0), IdBytes(4, 0)),
    OverflowFile(<<"g", ".", "1", ".", "6", "0">>, FALSE, IdBytes(1, 0), IdBytes(2, 0)) }

\* the (stream, task) pairs of the kernels launched, with their op names
LaunchedOps ==
  { <<StreamTaskKey(IdBytes(1, 0), IdBytes(2, 0)), "Add">>,
    <<StreamTaskKey(IdBytes(3, 0), IdBytes(4, 0)), "Mul">> }

\* what readdir may produce in a scan: some of the files, in any order
DirectoryListings ==
  UNION {{o \in [1..n -> OverflowFiles] : \A i, j \in 1..n : o[i] = o[j] => i = j} :
           n \in 0..MaxFiles}

\* the loop over bin_list that ends CheckOpOverflow
RECURSIVE LastOverflowBin(_, _)
LastOverflowBin(bin_list, last) ==
  IF bin_list = <<>> THEN last
  ELSE LastOverflowBin(Tail(bin_list),
                       IF Head(bin_list) > last THEN Head(bin_list) ELSE last)

\* a readdir loop that compares each file with the watermark advanced by
\* the timestamps already in bin_list
RECURSIVE ScanAdvancing(_, _, _, _)
ScanAdvancing(dir, char_signed, bin_list, op_names) ==
  IF dir = <<>>
    THEN [op_names |-> op_names,
          last_overflow_bin |-> LastOverflowBin(bin_list, last_overflow_bin)]
  ELSE
    LET file == Head(dir)
        found == FindLastOf(file.name, ".")
        overflow_time == Stod(SubstrFrom(file.name, found), 0)
        key == StreamTaskKey(BytestoInt64(file.stream, char_signed),
                             BytestoInt64(file.task, char_signed))
    IN IF found = 0 \/ overflow_time <= LastOverflowBin(bin_list, last_overflow_bin)
         THEN ScanAdvancing(Tail(dir), char_signed, bin_list, op_names)
       ELSE IF ~file.can_open
         THEN ScanAdvancing(Tail(dir), char_signed, Append(bin_list, overflow_time), op_names)
       ELSE ScanAdvancing(Tail(dir), char_signed, Append(bin_list, overflow_time),
              IF key \in DOMAIN stream_task_to_opname
                THEN Append(op_names, stream_task_to_opname[key])
                ELSE op_names)

\* the readdir loop of CheckOpOverflow over the files still to read
RECURSIVE ScanLoop(_, _, _, _)
ScanLoop(dir, char_signed, bin_list, op_names) ==
  IF dir = <<>>
    THEN [op_names |-> op_names,
          last_overflow_bin |-> LastOverflowBin(bin_list, last_overflow_bin)]
  ELSE
    LET file == Head(dir)
        found == FindLastOf(file.name, ".")
        overflow_time == Stod(SubstrFrom(file.name, found), 0)
        key == StreamTaskKey(BytestoInt64(file.stream, char_signed),
                             BytestoInt64(file.task, char_signed))
    IN IF found = 0 \/ overflow_time <= last_overflow_bin
         THEN ScanLoop(Tail(dir), char_signed, bin_list, op_names)
       ELSE IF ~file.can_open
         THEN ScanLoop(Tail(dir), char_signed, Append(bin_list, overflow_time), op_names)
       ELSE ScanLoop(Tail(dir), char_signed, Append(bin_list, overflow_time),
              IF key \in DOMAIN stream_task_to_opname
                THEN Append(op_names, stream_task_to_opname[key])
                ELSE op_names)

\* Debugger::CheckOpOverflow with the regular files of the directory in
\* the order readdir returns them: the op names returned and the watermark
\* left
CheckOpOverflow(dir, char_signed) == ScanLoop(dir, char_signed, <<>>, <<>>)

\* a call of CheckOpOverflow in a build whose char is signed or not; arg
\* keeps the directory order and the watermark at entry
CallCheckOpOverflow(dir, char_signed) ==
  /\ pc = "idle"
  /\ LET r == CheckOpOverflow(dir, char_signed)
     IN /\ last_overflow_bin' = r.last_overflow_bin
        /\ arg' = <<"CheckOpOverflow", dir, last_overflow_bin>>
        /\ ret' = <<r.op_names>>
  /\ UNCHANGED <<device_id, device_target, num_step, debugger_enabled, run_level,
                 node_name, cur_name, training_done, is_dataset_graph,
                 partial_memory, graph_ptr, overflow_bin_path, stream_task_to_opname,
                 grpc_client, debug_services>>
  /\ UNCHANGED <<env, loop, reply, out, res_cleared, graphs_sent>>

\* the kernel runtime records the op launched on a (stream, task) pair
RecordLaunch(op) ==
  /\ op[1] \notin DOMAIN stream_task_to_opname
  /\ stream_task_to_opname' =
       [k \in DOMAIN stream_task_to_opname \cup {op[1]} |->
          IF k = op[1] THEN op[2] ELSE stream_task_to_opname[k]]
  /\ UNCHANGED <<device_id, device_target, num_step, debugger_enabled, run_level,
                 node_name, cur_name, training_done, is_dataset_graph,
                 partial_memory, graph_ptr, overflow_bin_path, last_overflow_bin,
                 grpc_client, debug_services>>
  /\ UNCHANGED <<env, loop, reply, out, res_cleared, graphs_sent, arg, ret>>

NextOverflow ==
  \/ \E op \in LaunchedOps : RecordLaunch(op)
  \/ \E dir \in DirectoryListings, char_signed \in BOOLEAN :
       CallCheckOpOverflow(dir, char_signed)

\* a process started with the debugger enabled and the default host and port
InitOverflow ==
  /\ Debugger(Environment(<< <<"1">> >>, <<>>, <<>>, <<>>, FALSE))
  /\ Idle
  /\ graphs_sent = <<>>

\* the overflow scans of one session, no Enable or Reset between them
SpecOverflow == InitOverflow /\ [][NextOverflow]_vars

(***************************************************************************)
(* Several threads: the methods that take access_lock_ exclude each other, *)
(* so a thread is inside one of them only while pc is not "idle"; the      *)
(* methods that do not take it run at any time.  PreExecute is split where *)
(* EnableDebugger has set debugger_enabled_ and not yet debug_services_.   *)
(***************************************************************************)
\* access_lock_ is held: a thread is inside a method that took it
LockHeld == pc \in {"WaitForCommand", "EnableDebugger"}

\* Debugger::PreExecute(graph_ptr) up to `debugger_enabled_ =
\* CheckDebuggerEnabled()` of EnableDebugger when the graph is new and not a
\* data-loading graph, and the whole of it otherwise
PreExecuteEnter(graph) ==
  /\ Call
  /\ IF DebuggerBackendEnabled /\ IsNewGraph(graph) /\ ~CheckDatasetGraph(graph)
       THEN /\ graph_ptr' = graph
            /\ is_dataset_graph' = FALSE
            /\ num_step' = 0
            /\ debugger_enabled' = CheckDebuggerEnabled
            /\ partial_memory' = FALSE
            /\ grpc_client' = <<>>
            /\ debug_services' = <<>>
            /\ pc' = "EnableDebugger"
            /\ out' = <<>>
            /\ UNCHANGED <<metadata, num_wait_fail, n_ok, n_wait, sleeps, graphs_sent>>
            /\ UNCHANGED <<device_id, device_target, run_level, node_name, cur_name,
                           training_done, last_overflow_bin, overflow_bin_path,
                           stream_task_to_opname>>
       ELSE PreExecute(graph)

\* the rest of EnableDebugger, of CheckGraphPtr and of PreExecute
EnableDebuggerRest ==
  /\ pc = "EnableDebugger"
  /\ UNCHANGED <<env, reply, res_cleared, arg, ret>>
  /\ UNCHANGED <<device_id, device_target, num_step, run_level, node_name, cur_name,
                 training_done, is_dataset_graph, graph_ptr, last_overflow_bin,
                 overflow_bin_path, stream_task_to_opname>>
  /\ debugger_enabled' = EnableDebugger.debugger_enabled
  /\ partial_memory' = EnableDebugger.partial_memory
  /\ grpc_client' = EnableDebugger.grpc_client
  /\ debug_services' = EnableDebugger.debug_services
  /\ IF EnableDebugger.debugger_enabled
       THEN SendGraphAndSuspend
       ELSE /\ pc' = "idle"
            /\ out' = <<>>
            /\ UNCHANGED <<metadata, num_wait_fail, n_ok, n_wait, sleeps, graphs_sent>>

\* SetStepNum that does not wait for access_lock_
SetStepNumUnlocked(cur_num_step) ==
  /\ pc # "exited"
  /\ UNCHANGED <<env, reply, res_cleared, arg, ret>>
  /\ num_step' = cur_num_step
  /\ Return
  /\ UNCHANGED <<grpc_client, debug_services, device_id, device_target, cur_name,
                 debugger_enabled, run_level, node_name, training_done, is_dataset_graph,
                 partial_memory, graph_ptr, last_overflow_bin, overflow_bin_path,
                 stream_task_to_opname>>

\* Debugger::SetStepNum(cur_num_step)
SetStepNum(cur_num_step) ==
  /\ Call
  /\ num_step' = cur_num_step
  /\ Return
  /\ UNCHANGED <<grpc_client, debug_services, device_id, device_target, cur_name,
                 debugger_enabled, run_level, node_name, training_done, is_dataset_graph,
                 partial_memory, graph_ptr, last_overflow_bin, overflow_bin_path,
                 stream_task_to_opname>>

\* Debugger::SetTrainingDone(training_done): access_lock_ is not taken
SetTrainingDone(done) ==
  /\ pc # "exited"
  /\ training_done' = done
  /\ UNCHANGED <<grpc_client, debug_services, device_id, device_target, num_step,
                 debugger_enabled, run_level, node_name, cur_name, is_dataset_graph,
                 partial_memory, graph_ptr, last_overflow_bin, overflow_bin_path,
                 stream_task_to_opname>>
  /\ UNCHANGED <<env, loop, reply, out, res_cleared, graphs_sent, arg, ret>>

\* Debugger::ReadNodeDataRequired(): access_lock_ is not taken; with
\* debug_services_ null the call through it is undefined: the process is
\* killed (nothing is returned) or the call returns either value
ReadNodeDataRequired ==
  /\ pc # "exited"
  /\ arg' = <<"ReadNodeDataRequired">>
  /\ UNCHANGED <<members, env, metadata, num_wait_fail, n_ok, n_wait, sleeps, reply, out,
                 res_cleared, graphs_sent>>
  /\ IF debugger_enabled /\ ~is_dataset_graph
       THEN IF debug_services = <<>>
              THEN \/ ret' = <<>> /\ pc' = "exited"
                   \/ ret' \in {<<TRUE>>, <<FALSE>>} /\ pc' = pc
              ELSE /\ ret' = << \/ IsWatchPoint(cur_name, debug_services[1].watchpoint_table)
                                \/ run_level = "node"
                                     /\ (node_name = <<>> \/ node_name = cur_name) >>
                   /\ pc' = pc
       ELSE ret' = <<FALSE>> /\ pc' = pc

\* the readers debugger_enabled(), run_level() and step_num(): access_lock_
\* is not taken
Readers == {"debugger_enabled", "run_level", "step_num"}

CallReader(reader) ==
  /\ pc # "exited"
  /\ arg' = <<reader>>
  /\ ret' = << CASE reader = "debugger_enabled" -> debugger_enabled
                 [] reader = "run_level" -> run_level
                 [] reader = "step_num" -> num_step >>
  /\ UNCHANGED <<members, env, loop, reply, out, res_cleared, graphs_sent>>

NextThreads ==
  \/ \E id \in DeviceIds, target \in DeviceTargets : DebuggerInit(id, target)
  \/ \E graph \in KernelGraphs : PreExecuteEnter(graph)
  \/ EnableDebuggerRest
  \/ PostExecute
  \/ \E name \in NodeNames : SetCurNode(name)
  \/ \E n \in 0..MaxStep : SetStepNum(n)
  \/ \E done \in BOOLEAN : SetTrainingDone(done)
  \/ ReadNodeDataRequired
  \/ \E reader \in Readers : CallReader(reader)
  \/ \E r \in HistoryReplies : CommandLoopStep(r)

\* the session called from several threads
SpecThreads == Init /\ [][NextThreads]_vars

\* every public method that takes access_lock_, called by one thread
NextCalls ==
  \/ \E id \in DeviceIds, target \in DeviceTargets : DebuggerInit(id, target)
  \/ Reset
  \/ \E graph \in KernelGraphs : PreExecute(graph)
  \/ PostExecute
  \/ PostExecuteNode
  \/ PostDebugOp
  \/ \E name \in NodeNames : SetCurNode(name)
  \/ \E n \in 0..MaxStep : SetStepNum(n)
  \/ \E r \in Replies : CommandLoopStep(r)

SpecCalls == Init /\ [][NextCalls]_vars

(***************************************************************************)
(* The node hook with a watchpoint on the empty scope, the prefix of every *)
(* node name                                                               *)
(***************************************************************************)
\* the target of a Set command that names the empty scope
WatchScopeAll == <<WatchNode(<<>>, "scope")>>

\* the replies of a controller that watches every node or node "b" and runs
\* by node or by step
NodeReplies ==
  {RunReply("OK", "node", <<>>), RunReply("OK", "node", NodeA), RunReply("OK", "step", <<>>),
   SetReply(WatchScopeAll, ConditionNan, 0, 1, FALSE),
   SetReply(WatchNodeB, ConditionInf, 3, 2, FALSE),
   SetReply(WatchScopeAll, ConditionNan, 0, 1, TRUE)}

NextNode ==
  \/ \E graph \in KernelGraphs : PreExecute(graph)
  \/ PostExecuteNode
  \/ \E name \in NodeNames : SetCurNode(name)
  \/ \E tensors \in TensorConfigs : LoadNewTensor(tensors)
  \/ \E r \in NodeReplies : CommandLoopStep(r)

\* the session driven node by node
SpecNode == Init /\ [][NextNode]_vars

\* the session with the history of the topologies sent
SpecHistory == InitHistory /\ [][NextHistory]_vars

SpecEnv == InitEnv /\ [][Next]_vars

(***************************************************************************)
(* Properties of the command loop                                          *)
(***************************************************************************)
\* C1: in a command loop whose replies to WaitForCommand have all failed,
\* the k-th failure (k = 1..5) is followed by a sleep of k seconds and the
\* next WaitForCommand, so that the requests number one more than the
\* failures; the 6th failure calls Exit, after 6 requests and the sleeps of
\* 1, 2, 3, 4, 5 seconds, with no further sleep or request.
C1_RetryBackoff ==
  /\ (pc = "WaitForCommand" /\ n_ok = 0) =>
       /\ num_wait_fail <= 5
       /\ n_wait = num_wait_fail + 1
       /\ sleeps = [k \in 1..num_wait_fail |-> 1000 * k]
  /\ (pc = "exited" /\ n_ok = 0 /\ reply.status # "OK") =>
       /\ num_wait_fail = 6
       /\ n_wait = 6
       /\ sleeps = <<1000, 2000, 3000, 4000, 5000>>
       /\ out = <<[op |-> "ClearResAtexit"], [op |-> "exit"]>>

\* the process has exited on the 6th failure of a loop without an OK reply
C1_SixFailures == pc = "exited" /\ n_ok = 0 /\ reply.status # "OK" /\ num_wait_fail = 6

\* C6: the command loop returns to the engine only on a reply with an OK
\* status that carries a Run command, and then run_level_ and node_name_ are
\* the command's; a failed wait, a Set, a View or an unknown command leaves
\* the engine suspended (or ends the process).
C6_ReturnOnlyOnRun ==
  [][pc = "WaitForCommand" =>
       /\ pc' = "idle" =>
            /\ reply'.status = "OK"
            /\ reply'.cmd_case = "kRunCmd"
            /\ run_level' = reply'.run_cmd.run_level
            /\ node_name' = reply'.run_cmd.node_name
       /\ (reply'.status # "OK" \/ reply'.cmd_case \in {"kSetCmd", "kViewCmd", "CMD_NOT_SET"})
            => pc' # "idle"]_vars

\* the loop has returned on a Run command for node "s/a"
C6_Resumed ==
  /\ pc = "idle"
  /\ reply.status = "OK"
  /\ reply.cmd_case = "kRunCmd"
  /\ reply.run_cmd.node_name = NodeA
  /\ node_name = NodeA
  /\ run_level = "node"

\* C7: the process ends only from the command loop, on an Exit command or on
\* the failure that exceeds the retry budget; ClearResAtexit runs then, and
\* only then, before the exit; nothing changes once the process has exited.
C7_ExitOnly ==
  [][/\ pc = "exited" => UNCHANGED vars
     /\ res_cleared' # res_cleared => pc' = "exited"
     /\ (pc # "exited" /\ pc' = "exited") =>
          /\ pc = "WaitForCommand"
          /\ res_cleared'
          /\ out' = <<[op |-> "ClearResAtexit"], [op |-> "exit"]>>
          /\ \/ reply'.status = "OK" /\ reply'.cmd_case = "kExit"
             \/ reply'.status # "OK" /\ num_wait_fail' > 5]_vars

\* the process has exited on an Exit command
C7_ExitCommand ==
  pc = "exited" /\ reply.status = "OK" /\ reply.cmd_case = "kExit" /\ res_cleared

(***************************************************************************)
(* Properties of View and Set                                              *)
(***************************************************************************)
\* the last step was the pass of the command loop on a View command: `out`
\* begins with its SendTensors request and `reply` is the command
ViewDone == out # <<>> /\ out[1].op = "SendTensors"

\* the items of the tensor list `sent` that carry the fields of the
\* requested tensor req
ItemsOf(sent, req) ==
  SelectSeq(sent, LAMBDA item : /\ item.node_name = req.node_name
                                /\ item.slot = req.slot
                                /\ item.iter = req.iter
                                /\ item.truncate = req.truncate)

\* the position in the loader of the capture that req names, 0 if none
Cached(req) == FindTensor(debug_services[1].tensor_loader, GetTensorFullName(req))

\* ceil(S / CHUNK_SIZE) for the unsigned S = u.hi * 2^31 + u.lo, where
\* 2^31 = (IntMax \div CHUNK_SIZE) * CHUNK_SIZE + (IntMax % CHUNK_SIZE) + 1
NumChunks(u) ==
  IF u.hi = 0 THEN (u.lo + (CHUNK_SIZE - 1)) \div CHUNK_SIZE
  ELSE (IntMax \div CHUNK_SIZE)
       + ((IntMax % CHUNK_SIZE) + 1 + u.lo + (CHUNK_SIZE - 1)) \div CHUNK_SIZE

\* the items are the chunks of the capture t, in order: each of 1 to
\* CHUNK_SIZE bytes of t's buffer, the first at offset 0, each next one where
\* the one before ends, the last ending at t's size; only the last is
\* finished; each has t's data type and shape
ChunksOf(items, t) ==
  /\ Len(items) = NumChunks(t.data_size)
  /\ \A i \in 1..Len(items) :
       /\ items[i].tensor_content.buffer = t.name
       /\ items[i].tensor_content.size >= 1
       /\ items[i].tensor_content.size <= CHUNK_SIZE
       /\ items[i].tensor_content.offset =
            (IF i = 1 THEN 0
             ELSE items[i - 1].tensor_content.offset + items[i - 1].tensor_content.size)
       /\ items[i].finished = (i = Len(items))
       /\ items[i].data_type = GetDebuggerNumberDataType(t.dtype)
       /\ items[i].dims = t.shape
  /\ LET last == items[Len(items)].tensor_content
     IN IF t.data_size.hi = 0 THEN last.offset + last.size = t.data_size.lo
        ELSE (last.offset - IntMax) + (last.size - 1) = t.data_size.lo

\* C2: the tensor list sent for a View command has, for each requested
\* tensor whose capture is found with a buffer of 0 bytes, exactly one item:
\* finished, with the capture's data type and shape and an empty content.
C2_ZeroSizeOneItem ==
  ViewDone =>
    \A k \in 1..Len(GetTensors(reply)) :
      LET req == GetTensors(reply)[k]
          items == ItemsOf(out[1].tensors, req)
          t == debug_services[1].tensor_loader[Cached(req)]
      IN (Cached(req) # 0 /\ t.data_size = U32(0, 0)) =>
           /\ Len(items) = 1
           /\ items[1].finished
           /\ items[1].tensor_content.size = 0
           /\ items[1].data_type = GetDebuggerNumberDataType(t.dtype)
           /\ items[1].dims = t.shape

\* C3: the tensor list sent for a View command has, for each requested
\* tensor whose capture is found with S > 0 bytes, ceil(S / CHUNK_SIZE)
\* items that are the chunks of the capture in order, of at most CHUNK_SIZE
\* bytes each and S bytes together, the last one and only the last one
\* finished, each with the request's name, slot and iter and the capture's
\* data type and shape.
C3_ChunksCoverTensor ==
  ViewDone =>
    \A k \in 1..Len(GetTensors(reply)) :
      LET req == GetTensors(reply)[k]
          t == debug_services[1].tensor_loader[Cached(req)]
      IN (Cached(req) # 0 /\ t.data_size # U32(0, 0)) =>
           ChunksOf(ItemsOf(out[1].tensors, req), t)

\* C8: the tensor list sent for a View command has, for each requested
\* tensor the loader does not hold, exactly one item: finished, without
\* content, data type or dims, with the request's name, slot, iter and
\* truncate; and after such a View the loop waits for the next command, the
\* process has not exited and the replies of the loop so far are its
\* failures and its OK replies, the View among the latter.
C8_MissPlaceholder ==
  ViewDone =>
    \A k \in 1..Len(GetTensors(reply)) :
      LET req == GetTensors(reply)[k]
          items == ItemsOf(out[1].tensors, req)
      IN Cached(req) = 0 =>
           /\ Len(items) = 1
           /\ items[1].finished
           /\ items[1].tensor_content = [buffer |-> <<>>, offset |-> 0, size |-> 0]
           /\ items[1].data_type = "DT_UNDEFINED"
           /\ items[1].dims = <<>>
           /\ pc = "WaitForCommand"
           /\ out[Len(out)].op = "WaitForCommand"
           /\ ~res_cleared
           /\ n_ok >= 1
           /\ n_wait = num_wait_fail + n_ok + 1

\* a View has been answered that names "b:0:5", which the loader does not
\* hold, while it holds the captures of the step
C8_Miss ==
  /\ ViewDone
  /\ debug_services[1].tensor_loader # <<>>
  /\ \E k \in 1..Len(GetTensors(reply)) :
       /\ Cached(GetTensors(reply)[k]) = 0
       /\ GetTensors(reply)[k].iter = <<"5">>

\* C10: the pass of the command loop on a Set command with the delete flag
\* leaves the watchpoint table without the command's id and otherwise as it
\* was, whatever nodes and condition the command has; without the flag it
\* leaves the table with the command's condition, value and (name, is_scope)
\* targets at the id and otherwise as it was; either way the loop issues the
\* next WaitForCommand.
C10_SetDeleteFirst ==
  [][(pc = "WaitForCommand" /\ reply'.status = "OK" /\ reply'.cmd_case = "kSetCmd"
      /\ n_wait' = n_wait + 1) =>
       LET cmd == reply'.set_cmd
           old == debug_services[1].watchpoint_table
           new == debug_services'[1].watchpoint_table
           others == (DOMAIN old) \ {cmd.id}
       IN /\ pc' = "WaitForCommand"
          /\ out' = <<WaitForCommand(metadata[1])>>
          /\ \A i \in others : i \in DOMAIN new /\ new[i] = old[i]
          /\ IF cmd.delete
               THEN DOMAIN new = others
               ELSE /\ DOMAIN new = others \cup {cmd.id}
                    /\ new[cmd.id].id = cmd.id
                    /\ new[cmd.id].condition = cmd.watch_condition.condition
                    /\ new[cmd.id].parameter = cmd.watch_condition.value
                    /\ new[cmd.id].check_node_list =
                         [k \in 1..Len(cmd.watch_nodes) |->
                            <<cmd.watch_nodes[k].node_name,
                              cmd.watch_nodes[k].node_type = "scope">>]]_vars

\* a Set command with the delete flag, watch nodes and a condition has been
\* handled and has left the other watchpoint in the table
C10_Deleted ==
  /\ pc = "WaitForCommand"
  /\ reply.status = "OK"
  /\ reply.cmd_case = "kSetCmd"
  /\ reply.set_cmd.delete
  /\ reply.set_cmd.watch_nodes # <<>>
  /\ DOMAIN debug_services[1].watchpoint_table = WatchIds \ {reply.set_cmd.id}

(***************************************************************************)
(* Properties of the graph binding                                         *)
(***************************************************************************)
\* the execution order of the graph has a GetNext or InitDataSetQueue node
HasDatasetNode(graph) ==
  /\ graph # NullGraph
  /\ \E i \in 1..Len(ExecutionOrder[graph]) :
       ExecutionOrder[graph][i] \in {"GetNext", "InitDataSetQueue"}

\* the SendGraph requests among the requests `sent`
GraphsIn(sent) == SelectSeq(sent, LAMBDA q : q.op = "SendGraph")

\* C5: while a graph with a GetNext or InitDataSetQueue node is bound, the
\* engine is never suspended in the command loop and the last call has sent
\* nothing, whatever watchpoints there are: the PreExecute that bound the
\* graph and every hook after it have returned without a request.
C5_DatasetGraphSilent ==
  HasDatasetNode(graph_ptr) => pc = "idle" /\ out = <<>> /\ ~res_cleared

\* a data-loading graph is bound in a session that is enabled, has a
\* watchpoint and captures, and runs at node level on the current node
C5_DatasetBound ==
  /\ HasDatasetNode(graph_ptr)
  /\ debugger_enabled
  /\ DOMAIN debug_services[1].watchpoint_table # {}
  /\ debug_services[1].tensor_loader # <<>>
  /\ run_level = "node"
  /\ node_name = <<>>
  /\ cur_name = NodeA

\* C4 as stated: no call sends the topology of a graph whose topology has
\* been sent before in the session.
C4_SentOncePerGraph ==
  [][pc = "idle" =>
       \A i \in 1..Len(GraphsIn(out')) : GraphsIn(out')[i].graph \notin graphs_sent[1]]_vars

(***************************************************************************)
(* Properties of the configuration                                         *)
(***************************************************************************)
\* the value of the first n characters of the digit string s
RECURSIVE DecimalValue(_, _)
DecimalValue(s, n) ==
  IF n = 0 THEN 0 ELSE 10 * DecimalValue(s, n - 1) + DigitVal(s[n])

\* s is the decimal notation, without a leading zero, of a port in 1..PortMax
IsPortNumber(s) ==
  /\ Len(s) \in 1..5
  /\ \A i \in 1..Len(s) : IsDigit(s[i])
  /\ s[1] # "0"
  /\ DecimalValue(s, Len(s)) <= PortMax

\* the environment asks for remote debugging with a valid address and port:
\* ENABLE_MS_DEBUGGER is "1", MS_DEBUGGER_HOST is unset or an IPv4 address,
\* MS_DEBUGGER_PORT is unset or a port number
RemoteConfigValid(e) ==
  /\ e.ENABLE_MS_DEBUGGER # <<>> /\ IsOne(e.ENABLE_MS_DEBUGGER)
  /\ e.MS_DEBUGGER_HOST = <<>> \/ RegIpMatch(e.MS_DEBUGGER_HOST[1])
  /\ e.MS_DEBUGGER_PORT = <<>> \/ IsPortNumber(e.MS_DEBUGGER_PORT[1])

\* C9: in a process whose environment does not enable remote debugging, or
\* gives it an invalid address or port, the session never has a transport
\* client, no call sends a request or suspends the engine in the command
\* loop, and the process never exits from the debugger.
C9_InvalidConfigNoOp ==
  ~RemoteConfigValid(env) =>
    /\ grpc_client = <<>>
    /\ pc = "idle"
    /\ out = <<>>
    /\ ~res_cleared

(***************************************************************************)
(* Properties of the watchpoints                                           *)
(***************************************************************************)
\* the watchpoint table of the session, empty while there is no
\* DebugServices
Table ==
  IF debug_services = <<>> THEN [i \in {} |-> 0] ELSE debug_services[1].watchpoint_table

\* the step is a hook that has evaluated watchpoints and sends their hits
SendsHits == pc = "idle" /\ out' # <<>> /\ out'[1].op = "SendWatchpointHits"

\* the step is the pass of the command loop on a Set command
SetStep ==
  /\ pc = "WaitForCommand"
  /\ reply'.status = "OK"
  /\ reply'.cmd_case = "kSetCmd"
  /\ n_wait' = n_wait + 1

\* C11: a Set command with the delete flag leaves the table without its id,
\* and unchanged if the id was not in it; an id enters the table only by a
\* Set command without the delete flag for that id; and every hit a hook
\* sends has the id of a watchpoint that is in the table when the hook
\* evaluates. Hence no hit has an id that was removed and not set again.
C11_NoHitAfterRemove ==
  [][/\ (SetStep /\ reply'.set_cmd.delete) =>
          /\ reply'.set_cmd.id \notin DOMAIN Table'
          /\ reply'.set_cmd.id \notin DOMAIN Table => Table' = Table
          /\ pc' = "WaitForCommand"
     /\ \A id \in (DOMAIN Table') \ (DOMAIN Table) :
          SetStep /\ ~reply'.set_cmd.delete /\ reply'.set_cmd.id = id
     /\ SendsHits =>
          \A i \in 1..Len(out'[1].points) : out'[1].points[i].id \in DOMAIN Table]_vars

\* hits are sent while watchpoint 2 is the only one in the table
C11_HitOfRemaining ==
  /\ out # <<>>
  /\ out[1].op = "SendWatchpointHits"
  /\ DOMAIN Table = {2}
  /\ \A i \in 1..Len(out[1].points) : out[1].points[i].id = 2

\* the node of tensor t matches a target of watchpoint wp, an exact name or
\* a scope that begins the name, and the values of t satisfy its condition
HitExpected(wp, t) ==
  /\ \E k \in 1..Len(wp.check_node_list) :
       LET target == wp.check_node_list[k][1]
           is_scope == wp.check_node_list[k][2]
       IN IF is_scope
            THEN Len(target) <= Len(t.node) /\ SubSeq(t.node, 1, Len(target)) = target
            ELSE target = t.node
  /\ \/ wp.condition = ConditionNan /\ t.nan
     \/ wp.condition = ConditionInf /\ t.inf

\* the (watchpoint id, node, slot) of the hits expected on the tensors
\* `tensor_list` with the watchpoints of the table
ExpectedHits(tensor_list) ==
  {<<i, tensor_list[k].node, tensor_list[k].slot>> :
     <<i, k>> \in {<<j, m>> \in (DOMAIN Table) \X (1..Len(tensor_list)) :
                     HitExpected(Table[j], tensor_list[m])}}

\* the (watchpoint id, node, slot) of the hits `points`
HitsSent(points) ==
  {<<points[i].id, points[i].tensor.node_name, points[i].tensor.slot>> :
     i \in 1..Len(points)}

\* the tensors the hook of the step has passed to the evaluation: all of
\* them in PostExecute, which counts the step, those of the current node in
\* PostExecuteNode
Evaluated ==
  IF num_step' # num_step THEN debug_services[1].tensor_loader
  ELSE SelectSeq(debug_services[1].tensor_loader, LAMBDA t : t.node = cur_name)

\* C12: the hits a hook sends are those of the pairs (W, T), W in the
\* table and T among the tensors evaluated, where the node of T matches a
\* target of W and the values of T satisfy the condition of W: each such pair
\* once and no other; and a hook that evaluates and sends no hits has no such
\* pair.
C12_HitIffMatch ==
  [][/\ SendsHits =>
          /\ HitsSent(out'[1].points) = ExpectedHits(Evaluated)
          /\ Len(out'[1].points) = Cardinality(ExpectedHits(Evaluated))
     /\ (pc = "idle" /\ num_step' = num_step + 1 /\ ~SendsHits) =>
          ExpectedHits(debug_services[1].tensor_loader) = {}
     /\ (PostExecuteNode /\ debugger_enabled /\ ~is_dataset_graph /\ ~SendsHits) =>
          ExpectedHits(Evaluated) = {}]_vars

\* PostExecute has sent the hits of two watchpoints on tensors of two nodes
C12_TwoHits ==
  /\ out # <<>>
  /\ out[1].op = "SendWatchpointHits"
  /\ \E i, j \in 1..Len(out[1].points) :
       /\ out[1].points[i].id # out[1].points[j].id
       /\ out[1].points[i].tensor.node_name # out[1].points[j].tensor.node_name

\* C13: the hits a hook sends are, one for one and in the same order, the
\* results of the evaluation of the table on the tensors evaluated; each is
\* the watchpoint id, the condition and a tensor with the node name, the
\* slot and the finished flag, and nothing else (no content, type or dims).
C13_HitsAreIndicators ==
  [][SendsHits =>
       LET found == CheckWatchpointsDS(Table, DOMAIN Table, Evaluated)
           points == out'[1].points
       IN /\ Len(points) = Len(found)
          /\ \A i \in 1..Len(points) :
               /\ points[i].id = found[i].watchpoint_id
               /\ points[i].watch_condition = [condition |-> found[i].condition]
               /\ points[i].tensor = [node_name |-> found[i].name,
                                      slot |-> found[i].slot, finished |-> TRUE]
               /\ DOMAIN points[i] = {"id", "tensor", "watch_condition"}]_vars

\* hits of watchpoint 1 and then of watchpoint 2 have been sent
C13_OrderedHits ==
  /\ out # <<>>
  /\ out[1].op = "SendWatchpointHits"
  /\ Len(out[1].points) >= 2
  /\ out[1].points[1].id = 1
  /\ out[1].points[Len(out[1].points)].id = 2

(***************************************************************************)
(* Properties of the free functions                                        *)
(***************************************************************************)
\* the part of s after its last "/", all of s when it has none
AfterLastSlash(s) ==
  LET starts == {i \in 1..(Len(s) + 1) :
                   /\ \A j \in i..Len(s) : s[j] # "/"
                   /\ i = 1 \/ s[i - 1] = "/"}
  IN SubSeq(s, CHOOSE i \in starts : TRUE, Len(s))

\* C14: GetTensorFullName gives name' ":" slot, followed by ":" iter when
\* iter is not empty, where name' is node_name, or with truncate the part of
\* node_name after its last "/" (all of it when it has none); for
\* "conv/bn/gamma", "0", "5" that is "gamma:0:5" with truncate and
\* "conv/bn/gamma:0:5" without.
C14_FullName ==
  (arg # <<>> /\ arg[1] = "GetTensorFullName") =>
    LET t == arg[2]
        name == IF t.truncate THEN AfterLastSlash(t.node_name) ELSE t.node_name
    IN /\ ret[1] = name \o <<":">> \o t.slot
                     \o (IF t.iter # <<>> THEN <<":">> \o t.iter ELSE <<>>)
       /\ (t = TensorRequest(NodeGamma, <<"0">>, <<"5">>, TRUE)) =>
            ret[1] = <<"g", "a", "m", "m", "a", ":", "0", ":", "5">>
       /\ (t = TensorRequest(NodeGamma, <<"0">>, <<"5">>, FALSE)) =>
            ret[1] = NodeGamma \o <<":", "0", ":", "5">>

\* the name of "conv/bn/gamma", slot "0", iter "5", truncate has been formed
C14_Gamma ==
  /\ arg = <<"GetTensorFullName", TensorRequest(NodeGamma, <<"0">>, <<"5">>, TRUE)>>
  /\ ret = << <<"g", "a", "m", "m", "a", ":", "0", ":", "5">> >>

(***************************************************************************)
(* Properties of the overflow scan.  Timestamps are the numbers the scan   *)
(* reads from the file names; 31, 72, 20 and 50 stand for 3.1, 7.2, 2.0    *)
(* and 5.0 in tenths.                                                      *)
(***************************************************************************)
\* the step is a scan that changed the watermark or what the last scan
\* returned
ScanStep == <<arg, ret, last_overflow_bin>>' # <<arg, ret, last_overflow_bin>>

Stamped(file) == \E i \in 1..Len(file.name) : file.name[i] = "."

\* the number after the last "." of the name
TimeOf(file) ==
  LET i == CHOOSE k \in 1..Len(file.name) :
             file.name[k] = "." /\ \A j \in (k + 1)..Len(file.name) : file.name[j] # "."
  IN DecimalValue(SubSeq(file.name, i + 1, Len(file.name)), Len(file.name) - i)

\* the files of dir with a timestamp above mark, in directory order
Above(dir, mark) == SelectSeq(dir, LAMBDA f : Stamped(f) /\ TimeOf(f) > mark)

\* the op names of the readable files of a list whose record names a
\* launched op
OpNamesOf(files, char_signed) ==
  LET KeyOf(f) == StreamTaskKey(BytestoInt64(f.stream, char_signed),
                                BytestoInt64(f.task, char_signed))
      named == SelectSeq(files, LAMBDA f : f.can_open /\ KeyOf(f) \in DOMAIN stream_task_to_opname)
  IN [i \in 1..Len(named) |-> stream_task_to_opname[KeyOf(named[i])]]

TimesOf(files) == {TimeOf(files[i]) : i \in 1..Len(files)}

\* C15: across the scans of a session the watermark never decreases; a scan
\* compares every file with the watermark as it was when the scan started,
\* whatever the directory order: the op names it returns are those of the
\* files above that watermark and of no file at or below it, the watermark
\* it leaves is at least every timestamp above the old one and is the old
\* one or one of them; files 3.1, 7.2 and 2.0 scanned from watermark 0
\* leave 7.2, and a scan started at 7.2 takes nothing from file 5.0.
C15_WatermarkMonotonic ==
  [][/\ last_overflow_bin' >= last_overflow_bin
     /\ ScanStep =>
          LET dir == arg'[2]
              above == Above(dir, last_overflow_bin)
          IN /\ arg'[3] = last_overflow_bin
             /\ \A char_signed \in BOOLEAN : ret'[1] = OpNamesOf(above, char_signed)
             /\ \A t \in TimesOf(above) : last_overflow_bin' >= t
             /\ last_overflow_bin' \in {last_overflow_bin} \cup TimesOf(above)
             /\ (last_overflow_bin = 0 /\ TimesOf(Above(dir, 0)) = {31, 72, 20})
                   => last_overflow_bin' = 72
             /\ (last_overflow_bin = 72 /\ TimesOf(Above(dir, 0)) = {50})
                   => ret'[1] = <<>> /\ last_overflow_bin' = 72]_vars

\* a scan that found file 5.0 at watermark 7.2, the op of its record
\* launched, has returned no op name
C15_LateFileSkipped ==
  /\ arg # <<>>
  /\ arg[1] = "CheckOpOverflow"
  /\ arg[3] = 72
  /\ TimesOf(Above(arg[2], 0)) = {50}
  /\ Cardinality(DOMAIN stream_task_to_opname) = 2
  /\ ret = << <<>> >>
  /\ last_overflow_bin = 72

(***************************************************************************)
(* Properties of the session under concurrent callers                      *)
(***************************************************************************)
\* the step is a call of one of the readers
ReaderStep == arg' # arg \/ (arg' = arg /\ ret' # ret)

\* the session as a completed call leaves it: enabled only with the
\* DebugServices made
Complete == debugger_enabled => debug_services # <<>>

\* C16: no caller observes a partially applied update of a concurrent call:
\* ReadNodeDataRequired, debugger_enabled, run_level and step_num read the
\* session only as a completed call leaves it, never with the enabled flag
\* true and debug_services_ still null, and no reader is killed.
C16_NoPartialUpdate ==
  [][ReaderStep => Complete /\ pc' = pc]_vars

\* C17: every write of a session field by a public method is made by a
\* thread that holds access_lock_: device identity, step counter, current
\* node name and training-done flag change only in a step of a thread that
\* found the lock free.
C17_WritesUnderLock ==
  [][<<device_id, device_target, cur_name, training_done>>'
        # <<device_id, device_target, cur_name, training_done>> => ~LockHeld]_vars

(***************************************************************************)
(* Properties of the step hook                                             *)
(***************************************************************************)
\* C18: on every backend a PostExecute call made with remote debugging
\* enabled, a graph that is not a data-loading graph and a run-level other
\* than "node" adds 1 to the step counter, evaluates the watchpoints on all
\* the tensors captured and sends the hits before it suspends with the new
\* step as cur_step.
C18_StepCounted ==
  [][(/\ PostExecute
      /\ DebuggerBackendEnabled
      /\ debugger_enabled
      /\ ~is_dataset_graph
      /\ run_level # "node") =>
        /\ num_step' = num_step + 1
        /\ pc' = "WaitForCommand"
        /\ metadata'[1].cur_step = num_step + 1
        /\ ExpectedHits(debug_services[1].tensor_loader) =
             IF out'[1].op = "SendWatchpointHits" THEN HitsSent(out'[1].points) ELSE {}]_vars

(***************************************************************************)
(* Properties of the node hook                                             *)
(***************************************************************************)
\* the tensors of the current node
NodeTensors == SelectSeq(debug_services[1].tensor_loader, LAMBDA t : t.node = cur_name)

\* C19: with remote debugging enabled and a graph that is not a data-loading
\* graph, PostExecuteNode (a) sends the hits of the tensors of the current
\* node and enters the command loop once, if the current node is watched
\* and those tensors give a hit; (b) enters the command loop once without
\* sending hits, if there is no such hit, the run-level is "node" and the
\* target node is empty or the current node; and otherwise makes no
\* transport request.  Every hit sent is of a tensor of the current node.
C19_NodeHook ==
  [][(PostExecuteNode /\ debugger_enabled /\ ~is_dataset_graph) =>
       IF IsWatchPoint(cur_name, Table) /\ ExpectedHits(NodeTensors) # {}
         THEN /\ Len(out') = 2
              /\ out'[1].op = "SendWatchpointHits"
              /\ HitsSent(out'[1].points) = ExpectedHits(NodeTensors)
              /\ \A i \in 1..Len(out'[1].points) : out'[1].points[i].tensor.node_name = cur_name
              /\ out'[2].op = "WaitForCommand"
              /\ pc' = "WaitForCommand" /\ n_wait' = 1
       ELSE IF run_level = "node" /\ (node_name = <<>> \/ node_name = cur_name)
         THEN /\ Len(out') = 1
              /\ out'[1].op = "WaitForCommand"
              /\ pc' = "WaitForCommand" /\ n_wait' = 1
       ELSE out' = <<>> /\ pc' = "idle"]_vars

(***************************************************************************)
(* Properties of the replies to the Send requests                          *)
(***************************************************************************)
SendOps == {"SendMetadata", "SendGraph", "SendWatchpointHits", "SendTensors"}

\* the requests of a list that are Send requests with a reply that is not OK
FailedSends(sent) ==
  {i \in 1..Len(sent) : sent[i].op \in SendOps /\ sent[i].status # "OK"}

\* C20: a reply that is not OK to SendMetadata, SendGraph,
\* SendWatchpointHits or SendTensors does not end the process and does not
\* count as a WaitForCommand failure, and the protocol goes on: the request
\* that follows it in the same call is made, the hook enters the command
\* loop, and the loop that sent tensors waits for the next command.
C20_SendFailureIgnored ==
  [][FailedSends(out') # {} =>
       /\ pc' = "WaitForCommand"
       /\ res_cleared' = res_cleared
       /\ out'[Len(out')].op = "WaitForCommand"
       /\ num_wait_fail' = (IF pc = "idle" THEN 0 ELSE num_wait_fail)
       /\ \A i \in FailedSends(out') :
            /\ out'[i].op = "SendMetadata" => out'[i + 1].op = "SendGraph"
            /\ out'[i].op \in {"SendGraph", "SendWatchpointHits"} =>
                 pc = "idle" /\ out'[i + 1].op = "WaitForCommand" /\ n_wait' = 1
            /\ out'[i].op = "SendTensors" =>
                 pc = "WaitForCommand" /\ out'[i + 1].op = "WaitForCommand"
                   /\ n_wait' = n_wait + 1]_vars

\* the command loop waits again after a SendTensors that failed, with no
\* failure counted
C20_FailedSendTensors ==
  /\ pc = "WaitForCommand"
  /\ Len(out) = 2
  /\ out[1].op = "SendTensors"
  /\ out[1].status = "FAILED"
  /\ out[2].op = "WaitForCommand"
  /\ num_wait_fail = 0

(***************************************************************************)
(* Properties of the passes of the command loop                            *)
(***************************************************************************)
KnownCmdCases == {"kExit", "kRunCmd", "kSetCmd", "kViewCmd"}

\* the step is the pass of the command loop on an OK reply that carries
\* none of the four commands
UnknownStep ==
  /\ pc = "WaitForCommand"
  /\ reply'.status = "OK"
  /\ reply'.cmd_case \notin KnownCmdCases

\* C21: an OK reply whose command is none of Exit, Run, Set and View is
\* ignored: the loop stays suspended and issues the next WaitForCommand and
\* no other request; run-level, target node, step counter, Watch Store and
\* every other member, and the failure counter, are unchanged.
C21_UnknownIgnored ==
  [][UnknownStep =>
       /\ pc' = "WaitForCommand"
       /\ out' = <<WaitForCommand(metadata[1])>>
       /\ n_wait' = n_wait + 1
       /\ metadata' = metadata
       /\ num_wait_fail' = num_wait_fail
       /\ members' = members
       /\ res_cleared' = res_cleared]_vars

\* the loop has issued its second WaitForCommand after an unknown command
C21_UnknownReceived ==
  /\ pc = "WaitForCommand"
  /\ reply = CmdReply("OK", "CMD_NOT_SET")
  /\ n_wait = 2
  /\ out = <<WaitForCommand(metadata[1])>>

(***************************************************************************)
(* Properties of PreExecute                                                *)
(***************************************************************************)
\* C22: a PreExecute that binds a new graph that is not a data-loading graph
\* and leaves remote debugging enabled issues SendMetadata, then SendGraph
\* of that graph, then the first WaitForCommand, and is suspended in the
\* command loop, which only a Run command ends; a PreExecute with the graph
\* that is already bound issues no request, does not suspend and changes
\* nothing.
C22_PreExecuteOrder ==
  [][/\ \A graph \in KernelGraphs :
          PreExecute(graph) =>
            /\ (IsNewGraph(graph) /\ DebuggerBackendEnabled /\ ~HasDatasetNode(graph)
                  /\ debugger_enabled') =>
                 /\ Len(out') = 3
                 /\ out'[1].op = "SendMetadata"
                 /\ out'[2].op = "SendGraph"
                 /\ out'[2].graph = graph
                 /\ out'[3].op = "WaitForCommand"
                 /\ out'[1].metadata = out'[3].metadata
                 /\ pc' = "WaitForCommand"
                 /\ n_wait' = 1
            /\ ~IsNewGraph(graph) =>
                 out' = <<>> /\ pc' = "idle" /\ members' = members
     /\ (pc = "WaitForCommand" /\ pc' = "idle") =>
          reply'.status = "OK" /\ reply'.cmd_case = "kRunCmd"]_vars

\* PreExecute has sent the metadata and graph 2 and waits for the first
\* command
C22_GraphSent ==
  /\ pc = "WaitForCommand"
  /\ n_wait = 1
  /\ Len(out) = 3
  /\ out[1].op = "SendMetadata"
  /\ out[2].op = "SendGraph"
  /\ out[2].graph = 2
  /\ graph_ptr = 2

\* C24: with run-level "node" PostExecute returns at once on every backend:
\* the step counter and every other member are unchanged, no watchpoint is
\* evaluated, no request is issued and the command loop is not entered.
C24_NodeLevelReturns ==
  [][(PostExecute /\ run_level = "node") =>
       /\ members' = members
       /\ out' = <<>>
       /\ pc' = "idle"
       /\ loop' = loop]_vars

\* an idle session runs by node, with watchpoints set and tensors loaded
C24_RunsByNode ==
  /\ pc = "idle"
  /\ run_level = "node"
  /\ debugger_enabled
  /\ ~is_dataset_graph
  /\ DOMAIN Table # {}
  /\ debug_services[1].tensor_loader # <<>>

(***************************************************************************)
(* Properties of the retry count                                           *)
(***************************************************************************)
\* C23: the failure count of WaitForCommand counts consecutive failures: a
\* failure that is the first reply of the loop, or that follows a reply
\* received with status OK, is a first failure, so the loop sleeps one second
\* and waits again and the process does not end.
C23_ConsecutiveFailures ==
  [][(/\ pc = "WaitForCommand"
      /\ reply'.status # "OK"
      /\ (n_wait = 1 \/ reply.status = "OK")) =>
        /\ pc' = "WaitForCommand"
        /\ out'[1] = [op |-> "sleep", ms |-> 1000]]_vars

(***************************************************************************)
(* Properties of CheckPort                                                 *)
(***************************************************************************)
\* C25: CheckPort(s) is true if and only if s is a non-empty string of
\* decimal digits without a leading zero whose value is in 1..65535.
C25_CheckPortIff ==
  (arg # <<>> /\ arg[1] = "CheckPort") => ret[1] = IsPortNumber(arg[2])

(***************************************************************************)
(* Properties of BytestoInt64.  A 64-bit value is the tuple of its eight   *)
(* bytes, lowest first, so the value sum(b_i * 256^i) is the tuple of the  *)
(* bytes b0..b7 themselves.                                                *)
(***************************************************************************)
\* C26: for every 8-byte field with bytes in 0..255, bytes of 128 or more
\* included, BytestoInt64 returns the little-endian unsigned value of the
\* bytes, so the ids read from a record equal the ids written.
C26_LittleEndian ==
  (arg # <<>> /\ arg[1] = "BytestoInt64") => ret[1] = arg[2]

(***************************************************************************)
(* Properties of re-binding                                                *)
(***************************************************************************)
\* C27: whenever PreExecute binds a graph that differs from the bound one
\* and is not a data-loading graph, the session is enabled again from
\* scratch: when the command loop is entered the step counter is 0 and the
\* Watch Store is a new one, without watchpoints and without tensors.
C27_ReEnabled ==
  [][\A graph \in KernelGraphs :
       (PreExecute(graph) /\ IsNewGraph(graph) /\ DebuggerBackendEnabled
          /\ ~HasDatasetNode(graph)) =>
         /\ graph_ptr' = graph
         /\ num_step' = 0
         /\ pc' = "WaitForCommand" =>
              /\ debug_services' # <<>>
              /\ DOMAIN debug_services'[1].watchpoint_table = {}
              /\ debug_services'[1].tensor_loader = <<>>]_vars

\* graph 1 was bound and sent before, graph 2 has just been bound and sent:
\* the loop is entered at step 0 with an empty Watch Store
C27_SecondGraphBound ==
  /\ pc = "WaitForCommand"
  /\ n_wait = 1
  /\ graphs_sent = << {1, 2} >>
  /\ out[2].op = "SendGraph"
  /\ graph_ptr = 2
  /\ num_step = 0
  /\ debug_services # <<>>
  /\ DOMAIN debug_services[1].watchpoint_table = {}

(***************************************************************************)
(* Properties of Reset                                                     *)
(***************************************************************************)
\* C28: after Reset every member has the value the constructor gives it:
\* device id 0, empty device target, step 0, disabled, no data-loading
\* graph, no bound graph, no client, no Watch Store, watermark 0, empty
\* (stream, task) map, and also empty run-level, empty target node name,
\* empty current node name and training-done false.
C28_ResetIsFresh ==
  [][Reset =>
       /\ grpc_client' = <<>>
       /\ debug_services' = <<>>
       /\ device_id' = 0
       /\ device_target' = ""
       /\ num_step' = 0
       /\ debugger_enabled' = FALSE
       /\ is_dataset_graph' = FALSE
       /\ partial_memory' = FALSE
       /\ graph_ptr' = NullGraph
       /\ last_overflow_bin' = 0
       /\ overflow_bin_path' = ""
       /\ stream_task_to_opname' = <<>>
       /\ run_level' = ""
       /\ node_name' = <<>>
       /\ cur_name' = <<>>
       /\ training_done' = FALSE]_vars

(***************************************************************************)
(* Properties of the enabled session                                       *)
(***************************************************************************)
\* the requests to the controller
TransportOps ==
  {"SendMetadata", "SendGraph", "WaitForCommand", "SendWatchpointHits", "SendTensors"}

\* the client, the Watch Store and the bound graph exist
Equipped ==
  /\ grpc_client # <<>>
  /\ debug_services # <<>>
  /\ graph_ptr # NullGraph

\* C29: in every state reached by Init, PreExecute, PostExecute,
\* PostExecuteNode, PostDebugOp, SetCurNode, SetStepNum and Reset an enabled
\* session has a client, a Watch Store and a bound graph, and every request
\* to the controller is made with all three non-null.
C29_EnabledIsEquipped ==
  /\ [](debugger_enabled => Equipped)
  /\ [][(\E i \in 1..Len(out') : out'[i].op \in TransportOps) =>
          debugger_enabled' /\ Equipped']_vars

\* an enabled session is idle at step MaxStep, after a Run command ended a
\* suspension
C29_EnabledIdle ==
  /\ pc = "idle"
  /\ debugger_enabled
  /\ Equipped
  /\ reply.status = "OK"
  /\ reply.cmd_case = "kRunCmd"
  /\ num_step = MaxStep
  /\ arg = <<>>

(***************************************************************************)
(* Properties of the suspension                                            *)
(***************************************************************************)
\* C30: access_lock_ stays held for the whole suspension: while the command
\* loop waits, no call of Init, Reset, SetCurNode, SetStepNum or of a hook
\* completes, so the step counter, the current node name, the device
\* identity and the bound graph do not change; the suspension ends only by
\* a Run command, and after the process exits no call completes at all.
C30_SuspensionExcludes ==
  [][/\ pc = "WaitForCommand" =>
          /\ num_step' = num_step
          /\ cur_name' = cur_name
          /\ device_id' = device_id
          /\ device_target' = device_target
          /\ graph_ptr' = graph_ptr
          /\ grpc_client' = grpc_client
          /\ ~Reset
          /\ ~PostExecute
          /\ ~PostExecuteNode
          /\ ~PostDebugOp
          /\ \A n \in 0..MaxStep : ~SetStepNum(n)
          /\ \A name \in NodeNames : ~SetCurNode(name)
          /\ pc' = "idle" => reply'.status = "OK" /\ reply'.cmd_case = "kRunCmd"
     /\ pc # "exited"]_vars

\* the session has been suspended for more than one WaitForCommand, at step
\* 1 with the current node set
C30_LongSuspension ==
  /\ pc = "WaitForCommand"
  /\ n_wait >= 2
  /\ num_step = 1
  /\ cur_name # <<>>
  /\ debugger_enabled

(***************************************************************************)
(* Properties of the overflow files that cannot be opened                  *)
(***************************************************************************)
\* the files of a list that the scan could open and read
ReadOf(files) == SelectSeq(files, LAMBDA f : f.can_open)

\* C31: a file found above the watermark that cannot be opened does not
\* advance the watermark: after every scan the watermark is the maximum of
\* its previous value and the timestamps of the files read in that scan, so
\* the file is examined again by the next scan.
C31_UnreadFileKept ==
  [][ScanStep =>
       LET read == ReadOf(Above(arg'[2], last_overflow_bin))
       IN /\ \A t \in TimesOf(read) : last_overflow_bin' >= t
          /\ last_overflow_bin' \in {last_overflow_bin} \cup TimesOf(read)]_vars

====
